---- MODULE Spec2Model ----
(***************************************************************************)
(* A state-machine model of the deFeNEStrate NES core                      *)
(* (packages/defenestrate-core): the motherboard (Nes), the 2C02 PPU, the  *)
(* 6502 CPU, the NROM cartridge and the CPU/PPU buses.                     *)
(*                                                                         *)
(* Conventions.                                                            *)
(*  - Every Rust function taking `mb: &mut T` is an operator taking and    *)
(*    returning the record `mb` (the motherboard and everything it owns).  *)
(*    A function's return value travels in the scratch field mb.ret.       *)
(*  - A Rust panic (panic!, index out of bounds, arithmetic overflow in a  *)
(*    build with overflow checks) sets mb.panic; every later step of the   *)
(*    same call is skipped (Then) and the machine stops.                    *)
(*  - Arithmetic overflow: the build profile decides.  With overflow       *)
(*    checks (debug) it panics, without (release) it wraps.  mb.oc holds   *)
(*    the profile; Init chooses it.                                        *)
(*  - Memories that are large and mostly untouched (RAM, nametable) are    *)
(*    finite maps from the touched addresses, read with a default of 0     *)
(*    (both are zero-filled at construction).                              *)
(*  - frame_data (184,320 bytes) is represented by the writes the latest   *)
(*    clock() made to it: the byte offset and the PALLETE_TABLE index.     *)
(***************************************************************************)
EXTENDS Integers, Sequences, FiniteSets, TLC

----------------------------------------------------------------------------
(* Bit operations on naturals *)

RECURSIVE AndBits(_, _)
AndBits(a, b) ==
  IF a = 0 \/ b = 0 THEN 0
  ELSE (a % 2) * (b % 2) + 2 * AndBits(a \div 2, b \div 2)

RECURSIVE OrBits(_, _)
OrBits(a, b) ==
  IF a = 0 THEN b
  ELSE IF b = 0 THEN a
  ELSE (IF a % 2 = 1 \/ b % 2 = 1 THEN 1 ELSE 0) + 2 * OrBits(a \div 2, b \div 2)

RECURSIVE XorBits(_, _)
XorBits(a, b) ==
  IF a = 0 THEN b
  ELSE IF b = 0 THEN a
  ELSE ((a + b) % 2) + 2 * XorBits(a \div 2, b \div 2)

(* the operators on hexadecimal digits, tabulated *)
AndTable == [x \in 0..15 |-> [y \in 0..15 |-> AndBits(x, y)]]
OrTable == [x \in 0..15 |-> [y \in 0..15 |-> OrBits(x, y)]]
XorTable == [x \in 0..15 |-> [y \in 0..15 |-> XorBits(x, y)]]

Digit(a, i) == (a \div (16 ^ i)) % 16

And(a, b) ==
  AndTable[Digit(a, 0)][Digit(b, 0)] + 16 * AndTable[Digit(a, 1)][Digit(b, 1)]
  + 256 * AndTable[Digit(a, 2)][Digit(b, 2)] + 4096 * AndTable[Digit(a, 3)][Digit(b, 3)]
  + 65536 * AndBits(a \div 65536, b \div 65536)

Or(a, b) ==
  OrTable[Digit(a, 0)][Digit(b, 0)] + 16 * OrTable[Digit(a, 1)][Digit(b, 1)]
  + 256 * OrTable[Digit(a, 2)][Digit(b, 2)] + 4096 * OrTable[Digit(a, 3)][Digit(b, 3)]
  + 65536 * OrBits(a \div 65536, b \div 65536)

Xor(a, b) ==
  XorTable[Digit(a, 0)][Digit(b, 0)] + 16 * XorTable[Digit(a, 1)][Digit(b, 1)]
  + 256 * XorTable[Digit(a, 2)][Digit(b, 2)] + 4096 * XorTable[Digit(a, 3)][Digit(b, 3)]
  + 65536 * XorBits(a \div 65536, b \div 65536)

Not8(a) == 255 - a
Not16(a) == 65535 - a
Shl(a, n) == a * (2 ^ n)
Shr(a, n) == a \div (2 ^ n)
U8(a) == a % 256
U16(a) == a % 65536

(* bytes_to_addr!(fst, snd) *)
bytes_to_addr(fst, snd) == Or(Shl(snd, 8), fst)

----------------------------------------------------------------------------
(* Sparse memories *)

Get(m, a) == IF a \in DOMAIN m THEN m[a] ELSE 0
Put(m, a, d) == [x \in (DOMAIN m) \cup {a} |-> IF x = a THEN d ELSE m[x]]
EmptyMem == [x \in {} |-> 0]

----------------------------------------------------------------------------
(* Panics and sequencing *)

NoPanic == ""
Panic(mb, why) == IF mb.panic = NoPanic THEN [mb EXCEPT !.panic = why] ELSE mb
Then(mb, F(_)) == IF mb.panic # NoPanic THEN mb ELSE F(mb)
Ret(mb, val) == [mb EXCEPT !.ret = val]
Log(mb, ev) == [mb EXCEPT !.log = Append(@, ev)]

----------------------------------------------------------------------------
(* PPU constants: devices/ppu/structs.rs, devices/ppu/ppu.rs *)

PPU_NAMETABLE_START_ADDR == 8192
PPU_PALETTE_START_ADDR == 16128
ATTR_TABLE_OFFSET == 960

COARSE_X == 31
COARSE_Y == 992
NAMETABLE_X == 1024
NAMETABLE_Y == 2048
FINE_Y == 1792

NAMETABLE_BASE_SELECT == 3
VRAM_INCREMENT_SELECT == 4
SPRITE_TILE_SELECT == 8
BG_TILE_SELECT == 16
SPRITE_MODE_SELECT == 32
VBLANK_NMI_ENABLE == 128

BG_ENABLE == 8
SPRITE_ENABLE == 16

STATUS_IGNORED == 31
SPRITE_OVERFLOW == 32
SPRITE_0_HIT == 64
VBLANK == 128

PPUCTRL == 8192
PPUMASK == 8193
PPUSTATUS == 8194
OAMADDR == 8195
OAMDATA == 8196
PPUSCROLL == 8197
PPUADDR == 8198
PPUDATA == 8199
OAMDMA == 16404

OAM_PALLETE == 3
OAM_BACKGROUND_PRIORITY == 32
OAM_ATTR == 2
OAM_X_POS == 3

PalleteTableLen == 192
FrameDataLen == 184320

----------------------------------------------------------------------------
(* The cartridge image: an NROM cartridge with 16 KiB of PRG.  The bytes   *)
(* are inputs; CHR holds a fixed pattern that differs between addresses.    *)

ChrByte(a) == (a * 5 + 3) % 256


----------------------------------------------------------------------------
(* devices/bus.rs: BusPeekResult *)

Result(val) == [kind |-> "Result", val |-> val]
Unmapped == [kind |-> "Unmapped", val |-> 0]
MutableRead == [kind |-> "MutableRead", val |-> 0]

unwrap(r, last_bus_value) == IF r.kind = "Result" THEN r.val ELSE last_bus_value

----------------------------------------------------------------------------
(* devices/cartridge/nrom.rs: the CHR side of NROMCartridge *)

nt_mirror(cart, addr) ==
  LET nt_addr == addr - 8192 IN
  IF cart.use_horizontal_mirroring
  THEN Or(And(nt_addr, 1023), Shr(And(2048, addr), 1))
  ELSE And(nt_addr, 2047)

peek_chr(cart, addr) ==
  IF addr < 8192 THEN Result(ChrByte(addr))
  ELSE Result(Get(cart.nametable, nt_mirror(cart, addr)))

read_chr(cart, addr, last_bus_value) == unwrap(peek_chr(cart, addr), last_bus_value)

write_chr(cart, addr, value) ==
  IF addr < 8192 THEN cart
  ELSE [cart EXCEPT !.nametable = Put(@, nt_mirror(cart, addr), value)]

----------------------------------------------------------------------------
(* devices/ppu/ppu.rs: PpuPaletteRam *)

(* the variant has no mirrors: every offset is its own cell *)
palette_no_mirror(addr) == addr
palette_mirror(addr) ==
  CASE addr = 16 -> 0
    [] addr = 20 -> 4
    [] addr = 24 -> 8
    [] addr = 28 -> 12
    [] OTHER -> addr

palette_peek(pal, addr) == Result(pal[palette_mirror(addr)])
palette_read(pal, addr, last_bus_value) == unwrap(palette_peek(pal, addr), last_bus_value)
palette_write(pal, addr, data) == [pal EXCEPT ![palette_mirror(addr)] = data]

----------------------------------------------------------------------------
(* ppu_memory_map: used by devices/ppu/ppu.rs (read, write) but defined    *)
(* nowhere in the sources; modelled from the PPU-bus routing of the spec:  *)
(* $0000-$3EFF cartridge (CHR and nametables, global address), $3F00-$3FFF *)
(* palette RAM (local address masked to 5 bits), anything else unmapped.   *)

ppu_match_addr(addr) ==
  IF addr <= 16127 THEN [device |-> "CartridgeOrNametable", addr |-> addr]
  ELSE IF addr <= 16383 THEN [device |-> "PaletteRAM", addr |-> And(addr - 16128, 31)]
  ELSE [device |-> "Unmapped", addr |-> addr]

(* fn read: the PPU bus *)
ppu_read(mb, addr) ==
  LET m == ppu_match_addr(addr)
      last == mb.ppu.last_bus_value
      response ==
        CASE m.device = "CartridgeOrNametable" -> read_chr(mb.cart, m.addr, last)
          [] m.device = "PaletteRAM" -> palette_read(mb.palette, m.addr, last)
          [] OTHER -> last
  IN [mb EXCEPT !.ppu.last_bus_value = response, !.ret = response]

(* fn write: the PPU bus *)
ppu_write(mb, addr, data) ==
  LET m == ppu_match_addr(addr)
      m1 == [mb EXCEPT !.ppu.last_bus_value = data]
  IN CASE m.device = "CartridgeOrNametable" ->
            [m1 EXCEPT !.cart = write_chr(mb.cart, m.addr, data)]
       [] m.device = "PaletteRAM" ->
            [m1 EXCEPT !.palette = palette_write(mb.palette, m.addr, data)]
       [] OTHER -> m1

----------------------------------------------------------------------------
(* devices/ppu/ppu.rs: the v increments *)

RenderingEnabled(mb) == And(mb.ppu.mask, Or(BG_ENABLE, SPRITE_ENABLE)) # 0

is_rendering(mb) ==
  /\ And(mb.ppu.mask, Or(BG_ENABLE, SPRITE_ENABLE)) > 0
  /\ mb.ppu.scanline > -1
  /\ mb.ppu.scanline < 240

(* v += n on a u16 *)
add_v(mb, n) ==
  LET raw == mb.ppu.v + n IN
  IF raw > 65535 /\ mb.oc THEN Panic(mb, "attempt to add with overflow")
  ELSE [mb EXCEPT !.ppu.v = U16(raw)]

inc_coarse_x(mb) ==
  IF ~RenderingEnabled(mb) THEN mb
  ELSE IF And(mb.ppu.v, COARSE_X) = 31
       THEN [mb EXCEPT !.ppu.v =
               Xor(And(@, And(65535, Not16(COARSE_X))), NAMETABLE_X)]
       ELSE add_v(mb, 1)

inc_fine_y(mb) ==
  IF ~RenderingEnabled(mb) THEN mb
  ELSE IF And(mb.ppu.v, FINE_Y) # 28672
       THEN add_v(mb, 4096)
       ELSE LET v1 == And(mb.ppu.v, And(65535, Not16(FINE_Y)))
                y == Shr(And(v1, COARSE_Y), 5)
                v2 == IF y = 29 THEN Xor(v1, NAMETABLE_Y) ELSE v1
                new_y == IF y = 29 \/ y = 31 THEN 0 ELSE y + 1
            IN [mb EXCEPT !.ppu.v =
                  Or(And(v2, And(65535, Not16(COARSE_Y))), Shl(new_y, 5))]

transfer_x_addr(mb) ==
  IF ~RenderingEnabled(mb) THEN mb
  ELSE LET X_ADDR_PART == Or(COARSE_X, NAMETABLE_X) IN
       [mb EXCEPT !.ppu.v =
          Or(And(@, And(65535, Not16(X_ADDR_PART))), And(mb.ppu.t, X_ADDR_PART))]

transfer_y_addr(mb) ==
  IF ~RenderingEnabled(mb) THEN mb
  ELSE LET Y_ADDR_PART == Or(Or(FINE_Y, NAMETABLE_Y), COARSE_Y) IN
       [mb EXCEPT !.ppu.v =
          Or(And(@, And(65535, Not16(Y_ADDR_PART))), And(mb.ppu.t, Y_ADDR_PART))]

(* the v increment with the PPUCTRL increment select ignored *)
ppudata_increment_by_one(mb) ==
  IF ~is_rendering(mb)
  THEN [mb EXCEPT !.ppu.v = And(32767, U16(mb.ppu.v + 1))]
  ELSE Then(inc_coarse_x(mb), inc_fine_y)

(* the v increment shared by PPUDATA reads and writes *)
ppudata_increment(mb) ==
  IF ~is_rendering(mb)
  THEN LET inc == IF And(mb.ppu.control, VRAM_INCREMENT_SELECT) # 0 THEN 32 ELSE 1
           raw == mb.ppu.v + inc
       IN IF raw > 65535 /\ mb.oc THEN Panic(mb, "attempt to add with overflow")
          ELSE [mb EXCEPT !.ppu.v = And(32767, U16(raw))]
  ELSE Then(inc_coarse_x(mb), inc_fine_y)

----------------------------------------------------------------------------
(* devices/ppu/ppu.rs: control_port_read *)

(* the palette arm of the PPUDATA read: r1 is the machine after read(mb, addr) *)
ppudata_palette(r1, r2) ==
  [r2 EXCEPT !.ppu.ppudata_buffer = r2.ret,
             !.ppu.last_control_port_value = r1.ret,
             !.ret = r1.ret]

ppudata_direct(r1, addr) == ppudata_palette(r1, ppu_read(r1, And(addr, 4095)))

(* the PPUDATA read returning the byte just fetched instead of the buffer *)
ppudata_unbuffered(r1) ==
  [r1 EXCEPT !.ppu.ppudata_buffer = r1.ret,
             !.ppu.last_control_port_value = r1.ret,
             !.ret = r1.ret]

(* the buffered PPUDATA read: r1 is the machine after `let buffer = read(mb, addr)` *)
ppudata_buffered(r1) ==
  [r1 EXCEPT !.ppu.ppudata_buffer = r1.ret,
             !.ppu.last_control_port_value = r1.ppu.ppudata_buffer,
             !.ret = r1.ppu.ppudata_buffer]

(* the PPUDATA read after the increment of v; addr is v before the increment *)
ppudata_read(m, port_addr, addr) ==
  IF m.panic # NoPanic THEN m
  ELSE IF port_addr >= 16128 THEN ppudata_direct(ppu_read(m, addr), addr)
  ELSE ppudata_buffered(ppu_read(m, addr))

(* the PPUSTATUS read leaving the vblank flag as it was *)
status_read_keep_vblank(mb, status) ==
  [mb EXCEPT !.ppu.status = And(And(mb.ppu.status, 255), Not8(STATUS_IGNORED)),
             !.ppu.w = FALSE,
             !.ppu.vblank_nmi_ready = FALSE,
             !.ppu.last_control_port_value = status,
             !.ret = status]

(* the PPUSTATUS arm: status is the byte returned *)
status_read(mb, status) ==
  [mb EXCEPT !.ppu.status = And(And(mb.ppu.status, 255), Not8(Or(VBLANK, STATUS_IGNORED))),
             !.ppu.w = FALSE,
             !.ppu.vblank_nmi_ready = FALSE,
             !.ppu.last_control_port_value = status,
             !.ret = status]

control_port_read(mb, port_addr) ==
  CASE port_addr + 8192 = PPUSTATUS ->
         status_read(mb, Or(mb.ppu.status,
                            And(STATUS_IGNORED, mb.ppu.last_control_port_value)))
    [] port_addr + 8192 = OAMDATA ->
         Ret(mb, mb.ppu.oam[mb.ppu.oam_addr])
    [] port_addr + 8192 = PPUDATA ->
         ppudata_read(ppudata_increment(mb), port_addr, mb.ppu.v)
    [] OTHER -> Ret(mb, mb.ppu.last_control_port_value)

(* devices/ppu/ppu.rs: control_port_write *)

control_port_write(mb, port_addr, data) ==
  LET m0 == [mb EXCEPT !.ppu.last_control_port_value = data]
      p == m0.ppu
  IN
  CASE port_addr + 8192 = PPUCTRL ->
         [m0 EXCEPT !.ppu.control = data,
                    !.ppu.t = Or(And(p.t, And(32767, Not16(Or(NAMETABLE_X, NAMETABLE_Y)))),
                                 Shl(And(data, NAMETABLE_BASE_SELECT), 10))]
    [] port_addr + 8192 = PPUMASK ->
         [m0 EXCEPT !.ppu.mask = data]
    [] port_addr + 8192 = OAMADDR ->
         [m0 EXCEPT !.ppu.oam_addr = data]
    [] port_addr + 8192 = OAMDATA ->
         [m0 EXCEPT !.ppu.oam[p.oam_addr] = data]
    [] port_addr + 8192 = PPUSCROLL ->
         IF ~p.w
         THEN [m0 EXCEPT !.ppu.x = And(data, 7),
                         !.ppu.t = Or(And(p.t, And(65535, Not16(COARSE_X))),
                                      And(Shr(data, 3), COARSE_X)),
                         !.ppu.w = TRUE]
         ELSE [m0 EXCEPT !.ppu.t = Or(And(p.t, And(65535, Not16(Or(FINE_Y, COARSE_Y)))),
                                      Or(Shl(And(7, data), 12), Shl(And(data, 248), 2))),
                         !.ppu.w = FALSE]
    [] port_addr + 8192 = PPUADDR ->
         IF ~p.w
         THEN [m0 EXCEPT !.ppu.t = Or(And(p.t, 255), Shl(And(data, 63), 8)),
                         !.ppu.w = TRUE]
         ELSE LET t1 == Or(And(p.t, 65280), data) IN
              [m0 EXCEPT !.ppu.t = t1, !.ppu.v = t1, !.ppu.w = FALSE]
    [] port_addr + 8192 = PPUDATA ->
         ppudata_increment(ppu_write(m0, p.v, data))
    [] OTHER -> Panic(m0, "unreachable: Invalid PPU control port")

----------------------------------------------------------------------------
(* devices/ppu/ppu.rs: the shifters *)

transfer_registers(mb) ==
  LET p == mb.ppu
      latch == p.temp_at_byte
  IN [mb EXCEPT !.ppu.bg_tile_lo_shift_reg = Or(And(p.bg_tile_lo_shift_reg, 65280), p.temp_bg_lo_byte),
                !.ppu.bg_tile_hi_shift_reg = Or(And(p.bg_tile_hi_shift_reg, 65280), p.temp_bg_hi_byte),
                !.ppu.bg_attr_latch = latch,
                !.ppu.bg_attr_lo_shift_reg = 255 * And(latch, 1),
                !.ppu.bg_attr_hi_shift_reg = 255 * Shr(And(latch, 2), 1)]

update_shift_regs(mb) ==
  LET p == mb.ppu
      m1 == IF And(p.mask, BG_ENABLE) > 0
            THEN [mb EXCEPT !.ppu.bg_tile_hi_shift_reg = And(65535, U16(Shl(p.bg_tile_hi_shift_reg, 1))),
                            !.ppu.bg_tile_lo_shift_reg = And(65535, U16(Shl(p.bg_tile_lo_shift_reg, 1))),
                            !.ppu.bg_attr_lo_shift_reg = And(255, U8(Shl(p.bg_attr_lo_shift_reg, 1))),
                            !.ppu.bg_attr_hi_shift_reg = And(255, U8(Shl(p.bg_attr_hi_shift_reg, 1)))]
            ELSE mb
      sec == p.secondary_oam
      IsX(j) == j < 32 /\ j % 4 = OAM_X_POS
  IN IF And(p.mask, SPRITE_ENABLE) > 0 /\ p.pixel_cycle >= 1 /\ p.pixel_cycle < 258
     THEN [m1 EXCEPT
             !.ppu.secondary_oam =
                [j \in DOMAIN sec |-> IF IsX(j) /\ sec[j] > 0 THEN sec[j] - 1 ELSE sec[j]],
             !.ppu.sprite_tile_hi_shift_regs =
                [i \in 0..7 |-> IF sec[i * 4 + OAM_X_POS] > 0 THEN @[i] ELSE U8(Shl(@[i], 1))],
             !.ppu.sprite_tile_lo_shift_regs =
                [i \in 0..7 |-> IF sec[i * 4 + OAM_X_POS] > 0 THEN @[i] ELSE U8(Shl(@[i], 1))]]
     ELSE m1

----------------------------------------------------------------------------
(* devices/ppu/ppu.rs: clock, background evaluation (lines 288-349) *)

(* the four stores of the fetch cycle; r is the motherboard after the read *)
store_nt_byte(r) == [r EXCEPT !.ppu.temp_nt_byte = r.ret]

store_at_byte(r, v) ==
  LET a1 == IF And(Shr(And(v, COARSE_Y), 5), 2) > 0 THEN Shr(r.ret, 4) ELSE r.ret
      a2 == IF And(And(v, COARSE_X), 2) > 0 THEN Shr(a1, 2) ELSE a1
  IN [r EXCEPT !.ppu.temp_at_byte = And(a2, 3)]

store_bg_lo_byte(r) == [r EXCEPT !.ppu.temp_bg_lo_byte = r.ret]
store_bg_hi_byte(r) == [r EXCEPT !.ppu.temp_bg_hi_byte = r.ret]

(* the match on (pixel_cycle - 1) % 8; m is the motherboard after          *)
(* update_shift_regs                                                       *)
bg_fetch(m) ==
  LET v == m.ppu.v
      step == (m.ppu.pixel_cycle - 1) % 8
      pattern == Or(Or(Shl(And(m.ppu.control, BG_TILE_SELECT), 8),
                       Shl(m.ppu.temp_nt_byte, 4)),
                    Shr(And(v, FINE_Y), 12))
  IN CASE step = 0 ->
            store_nt_byte(ppu_read(transfer_registers(m),
                                   Or(PPU_NAMETABLE_START_ADDR, And(v, 4095))))
       [] step = 2 ->
            store_at_byte(ppu_read(m, Or(Or(Or(Or(PPU_NAMETABLE_START_ADDR, ATTR_TABLE_OFFSET),
                                               And(v, 3072)),
                                            And(Shr(v, 4), 56)),
                                         And(Shr(v, 2), 7))),
                          v)
       [] step = 4 -> store_bg_lo_byte(ppu_read(m, pattern))
       [] step = 6 -> store_bg_hi_byte(ppu_read(m, Or(pattern, 8)))
       [] step = 7 -> inc_coarse_x(m)
       [] OTHER -> m

(* the dummy nametable fetches of dots 337 and 339 *)
bg_dummy_fetch(m) ==
  IF m.ppu.pixel_cycle = 337 \/ m.ppu.pixel_cycle = 339
  THEN ppu_read(m, Or(PPU_NAMETABLE_START_ADDR, And(m.ppu.v, 4095)))
  ELSE m

clock_background(mb) ==
  LET pc == mb.ppu.pixel_cycle IN
  Then(IF (pc >= 1 /\ pc < 258) \/ (pc > 320 /\ pc < 337)
       THEN bg_fetch(update_shift_regs(mb))
       ELSE mb,
       bg_dummy_fetch)

----------------------------------------------------------------------------
(* devices/ppu/ppu.rs: clock, sprite evaluation (lines 352-393) *)

(* one iteration of the scan loop `for sprite in (oam_addr / 4)..64`; st    *)
(* holds the motherboard, n_sprites and whether the loop has hit `break`    *)
copy_sprite(mb, sprite, slot) ==
  [mb EXCEPT !.ppu.secondary_oam =
     [j \in DOMAIN @ |->
        IF j >= slot * 4 /\ j < slot * 4 + 4
        THEN mb.ppu.oam[sprite * 4 + (j - slot * 4)]
        ELSE @[j]]]

sprite_visit(st, sprite) ==
  LET p == st.mb.ppu
      diff == p.scanline - p.oam[sprite * 4]
      diff_cmp == IF And(p.control, SPRITE_MODE_SELECT) > 0 THEN 16 ELSE 8
      n == st.n_sprites + 1
  IN IF st.brk \/ ~(diff >= 0 /\ diff < diff_cmp) THEN st
     ELSE IF n = 8
          THEN [mb |-> [st.mb EXCEPT !.ppu.status = Or(@, SPRITE_OVERFLOW)],
                n_sprites |-> n, brk |-> TRUE]
          ELSE [mb |-> copy_sprite(st.mb, sprite, n - 1), n_sprites |-> n, brk |-> FALSE]

(* the iterations for the sprites lo .. hi - 1, in order *)
RECURSIVE sprite_range(_, _, _)
sprite_range(st, lo, hi) ==
  CASE st.brk \/ lo >= hi -> st
    [] ~st.brk /\ hi - lo = 1 -> sprite_visit(st, lo)
    [] OTHER -> sprite_range(sprite_range(st, lo, (lo + hi) \div 2), (lo + hi) \div 2, hi)

scan_result(st) == Ret(st.mb, st.n_sprites)

(* the scan loop; mb.ret is n_sprites *)
sprite_scan(mb) ==
  scan_result(sprite_range([mb |-> mb, n_sprites |-> 0, brk |-> FALSE],
                           mb.ppu.oam_addr \div 4, 64))

(* one iteration of the loop `for i in 0..n_sprites` that loads the sprite  *)
(* shifters                                                                 *)
sprite_load(mb, i) ==
  LET p == mb.ppu
      row == p.scanline - p.secondary_oam[i * 4]
      tile_addr == Or(Or(Shl(And(p.control, SPRITE_TILE_SELECT), 9),
                         Shl(p.secondary_oam[i * 4 + 1], 4)),
                      U16(row + 65536))
      hi_addr == tile_addr + 8
  IN IF row < 0 /\ mb.oc THEN Panic(mb, "attempt to subtract with overflow")
     ELSE LET r1 == ppu_read(mb, tile_addr)
              m1 == [r1 EXCEPT !.ppu.sprite_tile_lo_shift_regs[i] = r1.ret]
          IN IF hi_addr > 65535 /\ mb.oc THEN Panic(m1, "attempt to add with overflow")
             ELSE LET r2 == ppu_read(m1, U16(hi_addr))
                  IN [r2 EXCEPT !.ppu.sprite_tile_hi_shift_regs[i] = r2.ret]

(* the iterations lo .. hi - 1 of that loop, in order; a panic ends it *)
RECURSIVE sprite_fetch(_, _, _)
sprite_fetch(mb, lo, hi) ==
  CASE mb.panic # NoPanic \/ lo >= hi -> mb
    [] mb.panic = NoPanic /\ hi - lo = 1 -> sprite_load(mb, lo)
    [] OTHER -> sprite_fetch(sprite_fetch(mb, lo, (lo + hi) \div 2), (lo + hi) \div 2, hi)

clear_secondary_oam(mb) == [mb EXCEPT !.ppu.secondary_oam = [j \in 0..63 |-> 255]]

load_sprite_shifters(mb) == sprite_fetch(mb, 0, mb.ret)

clock_sprites(mb) ==
  IF mb.ppu.pixel_cycle = 258
  THEN load_sprite_shifters(sprite_scan(clear_secondary_oam(mb)))
  ELSE mb

----------------------------------------------------------------------------
(* devices/ppu/ppu.rs: clock, address increments (lines 396-416) *)

clock_increments(mb) ==
  LET pc == mb.ppu.pixel_cycle
      step256(m) == IF pc = 256 THEN inc_fine_y(m) ELSE m
      step257(m) == IF pc = 257 THEN transfer_x_addr(m) ELSE m
      prerender(m) ==
        IF m.ppu.scanline = 261
        THEN LET m1 == IF pc = 1
                       THEN [m EXCEPT !.ppu.status =
                               And(@, And(255, Not8(Or(Or(SPRITE_0_HIT, SPRITE_OVERFLOW), VBLANK))))]
                       ELSE m
             IN IF pc >= 280 \/ pc < 305 THEN transfer_y_addr(m1) ELSE m1
        ELSE m
  IN Then(Then(step256(mb), step257), prerender)

(* the block guarded by `scanline < 240 || scanline == 261` *)
clock_fetch(mb) ==
  IF mb.ppu.scanline < 240 \/ mb.ppu.scanline = 261
  THEN Then(Then(clock_background(mb), clock_sprites), clock_increments)
  ELSE mb

(* lines 418-427: the vblank flag *)
clock_vblank(mb) ==
  LET nmi_enabled == And(mb.ppu.control, VBLANK_NMI_ENABLE) > 0 IN
  IF mb.ppu.scanline = 241 /\ mb.ppu.pixel_cycle = 0
  THEN LET m1 == [mb EXCEPT !.ppu.vblank_nmi_ready = nmi_enabled] IN
       IF nmi_enabled THEN Panic(m1, "panik")
       ELSE [m1 EXCEPT !.ppu.status = Or(@, VBLANK)]
  ELSE mb

----------------------------------------------------------------------------
(* devices/ppu/ppu.rs: clock, pixel output (lines 428-545) *)

(* the three stores `frame_data[idx * 3 + i] = PALLETE_TABLE[color * 3 + i]`; *)
(* idx, i and color are u16                                                  *)
RECURSIVE frame_store(_, _, _, _)
frame_store(mb, idx, color, i) ==
  IF i >= 3 \/ mb.panic # NoPanic THEN mb
  ELSE
    LET raw == idx * 3 + i
        off == U16(raw)
        tbl == color * 3 + i
    IN IF raw > 65535 /\ mb.oc THEN Panic(mb, "attempt to multiply with overflow")
       ELSE IF tbl >= PalleteTableLen \/ off >= FrameDataLen
            THEN Panic(mb, "index out of bounds")
            ELSE frame_store([mb EXCEPT !.ppu.frame_writes = Append(@, [off |-> off, tbl |-> tbl])],
                             idx, color, i + 1)

(* the sprite loop `for i in 0..8` of the sprite rendering region; the       *)
(* result is the record of the loop's locals                                 *)
RECURSIVE sprite_pixel_scan(_, _, _)
sprite_pixel_scan(p, i, acc) ==
  IF i >= 8 THEN acc
  ELSE IF p.secondary_oam[i * 4 + OAM_X_POS] = 0
       THEN LET pattern_hi == And(p.sprite_tile_hi_shift_regs[i], 128)
                pattern_lo == And(p.sprite_tile_lo_shift_regs[i], 128)
                sprite_pixel == Or(U8(Shl(pattern_hi, 1)), pattern_lo)
                attr == p.secondary_oam[i * 4 + OAM_ATTR]
                acc1 == [sprite_pixel |-> sprite_pixel,
                         sprite_palette |-> And(attr, OAM_PALLETE) + 4,
                         sprite_priority |-> And(attr, OAM_BACKGROUND_PRIORITY) > 0,
                         is_sprite0_rendered |-> acc.is_sprite0_rendered \/ i = 0]
            IN IF sprite_pixel # 0 THEN acc1 ELSE sprite_pixel_scan(p, i + 1, acc1)
       ELSE sprite_pixel_scan(p, i + 1, acc)

(* the locals of the pixel output after compositing: the pixel, its        *)
(* palette and whether the sprite-0 hit is flagged                          *)
pixel_out(mb) ==
  LET p == mb.ppu
      bg_on == And(p.mask, BG_ENABLE) > 0
      bit_mux == Shr(32768, p.x)
      Bit(reg) == IF And(reg, bit_mux) > 0 THEN 1 ELSE 0
      bg_pixel == IF bg_on
                  THEN Or(Shl(Bit(p.bg_tile_hi_shift_reg), 1), Bit(p.bg_tile_lo_shift_reg))
                  ELSE 0
      bg_palette == IF bg_on
                    THEN Or(Shl(Bit(p.bg_attr_hi_shift_reg), 1), Bit(p.bg_attr_lo_shift_reg))
                    ELSE 0
      none == [sprite_pixel |-> 0, sprite_palette |-> 0,
               sprite_priority |-> FALSE, is_sprite0_rendered |-> FALSE]
      spr == IF And(p.mask, SPRITE_ENABLE) > 0 THEN sprite_pixel_scan(p, 0, none) ELSE none
      use_sprite == spr.sprite_pixel # 0 /\ (bg_pixel = 0 \/ ~spr.sprite_priority)
  IN [pixel |-> IF use_sprite THEN spr.sprite_pixel ELSE bg_pixel,
      palette |-> IF use_sprite THEN spr.sprite_palette ELSE bg_palette,
      hit |-> /\ spr.sprite_pixel # 0
              /\ bg_pixel # 0
              /\ spr.is_sprite0_rendered
              /\ And(p.mask, BG_ENABLE) > 0
              /\ And(p.mask, SPRITE_ENABLE) > 0]

(* the address of the palette read of a composited pixel *)
palette_addr(px) ==
  Or(PPU_PALETTE_START_ADDR, IF px.pixel = 0 THEN 0 ELSE Or(Shl(px.palette, 2), px.pixel))

clock_render(mb) ==
  LET p == mb.ppu
      sl16 == p.scanline
      rawidx == sl16 * 256 + p.pixel_cycle
      idx == U16(rawidx)
  IN
  IF p.scanline < 240 /\ p.pixel_cycle > 3 /\ p.scanline < 257
  THEN
    LET px == pixel_out(mb)
        m1 == IF px.hit THEN [mb EXCEPT !.ppu.status = Or(@, SPRITE_0_HIT)] ELSE mb
        r == ppu_read(m1, palette_addr(px))
    IN IF rawidx > 65535 /\ mb.oc THEN Panic(r, "attempt to multiply with overflow")
       ELSE frame_store(r, idx, r.ret, 0)
  ELSE IF p.pixel_cycle < 4
  THEN IF rawidx > 65535 /\ mb.oc THEN Panic(mb, "attempt to multiply with overflow")
       ELSE LET r == ppu_read(mb, PPU_PALETTE_START_ADDR)
            IN frame_store(r, idx, r.ret, 0)
  ELSE mb

(* clock_advance with the frame one scanline short *)
clock_advance_short_frame(mb) ==
  LET pc1 == mb.ppu.pixel_cycle + 1
      wrap == pc1 > 340
      sl1 == IF wrap THEN mb.ppu.scanline + 1 ELSE mb.ppu.scanline
      done == sl1 > 260
  IN [mb EXCEPT !.ppu.pixel_cycle = IF wrap THEN 0 ELSE pc1,
                !.ppu.scanline = IF done THEN 0 ELSE sl1,
                !.ppu.frame_ready = done]

(* clock_advance with the dot counter wrapping one dot late *)
clock_advance_late_wrap(mb) ==
  LET pc1 == mb.ppu.pixel_cycle + 1
      wrap == pc1 > 341
      sl1 == IF wrap THEN mb.ppu.scanline + 1 ELSE mb.ppu.scanline
      done == sl1 > 261
  IN [mb EXCEPT !.ppu.pixel_cycle = IF wrap THEN 0 ELSE pc1,
                !.ppu.scanline = IF done THEN 0 ELSE sl1,
                !.ppu.frame_ready = done]

(* lines 546-559: the dot and scanline counters *)
clock_advance(mb) ==
  LET pc1 == mb.ppu.pixel_cycle + 1
      wrap == pc1 > 340
      sl1 == IF wrap THEN mb.ppu.scanline + 1 ELSE mb.ppu.scanline
      done == sl1 > 261
  IN [mb EXCEPT !.ppu.pixel_cycle = IF wrap THEN 0 ELSE pc1,
                !.ppu.scanline = IF done THEN 0 ELSE sl1,
                !.ppu.frame_ready = done]

(* pub fn clock *)
clock(mb) ==
  LET m0 == [mb EXCEPT !.ppu.frame_writes = <<>>] IN
  Then(Then(Then(clock_fetch(m0), clock_vblank), clock_render), clock_advance)

----------------------------------------------------------------------------
(* devices/cpu/utils.rs: decode_instruction.  Entry i + 1 is the           *)
(* (addressing mode, mnemonic) of opcode i; illegal_opcode! yields NOP     *)
(* with the opcode's addressing mode, the `_` arm (unmapped_opcode!)       *)
(* yields (Impl, NOP).                                                     *)

DecodeTable ==
  <<
    <<"Impl", "BRK">>, <<"IndX", "ORA">>, <<"Impl", "NOP">>, <<"IndX", "NOP">>,
    <<"ZP", "NOP">>, <<"ZP", "ORA">>, <<"ZP", "ASL">>, <<"ZP", "NOP">>,
    <<"Impl", "PHP">>, <<"Imm", "ORA">>, <<"Accum", "ASL">>, <<"Imm", "NOP">>,
    <<"Abs", "NOP">>, <<"Abs", "ORA">>, <<"Abs", "ASL">>, <<"Abs", "NOP">>,
    <<"Rel", "BPL">>, <<"IndY", "ORA">>, <<"Impl", "NOP">>, <<"IndY", "NOP">>,
    <<"ZPX", "NOP">>, <<"ZPX", "ORA">>, <<"ZPX", "ASL">>, <<"ZPX", "NOP">>,
    <<"Impl", "CLC">>, <<"AbsY", "ORA">>, <<"Impl", "NOP">>, <<"AbsY", "NOP">>,
    <<"AbsX", "NOP">>, <<"AbsX", "ORA">>, <<"AbsX", "ASL">>, <<"AbsX", "NOP">>,
    <<"Abs", "JSR">>, <<"IndX", "AND">>, <<"Impl", "NOP">>, <<"IndX", "NOP">>,
    <<"ZP", "BIT">>, <<"ZP", "AND">>, <<"ZP", "ROL">>, <<"ZP", "NOP">>,
    <<"Impl", "PLP">>, <<"Imm", "AND">>, <<"Accum", "ROL">>, <<"Imm", "NOP">>,
    <<"Abs", "BIT">>, <<"Abs", "AND">>, <<"Abs", "ROL">>, <<"Abs", "NOP">>,
    <<"Rel", "BMI">>, <<"IndY", "AND">>, <<"Impl", "NOP">>, <<"IndY", "NOP">>,
    <<"ZPX", "NOP">>, <<"ZPX", "AND">>, <<"ZPX", "ROL">>, <<"ZPX", "NOP">>,
    <<"Impl", "SEC">>, <<"AbsY", "AND">>, <<"Impl", "NOP">>, <<"AbsY", "NOP">>,
    <<"AbsX", "NOP">>, <<"AbsX", "AND">>, <<"AbsX", "ROL">>, <<"AbsX", "NOP">>,
    <<"Impl", "RTI">>, <<"IndX", "EOR">>, <<"Impl", "NOP">>, <<"IndX", "NOP">>,
    <<"ZP", "NOP">>, <<"ZP", "EOR">>, <<"ZP", "LSR">>, <<"ZP", "NOP">>,
    <<"Impl", "PHA">>, <<"Imm", "EOR">>, <<"Accum", "LSR">>, <<"Imm", "NOP">>,
    <<"Abs", "JMP">>, <<"Abs", "EOR">>, <<"Abs", "LSR">>, <<"Abs", "NOP">>,
    <<"Rel", "BVC">>, <<"IndY", "EOR">>, <<"Impl", "NOP">>, <<"IndY", "NOP">>,
    <<"ZPX", "NOP">>, <<"ZPX", "EOR">>, <<"ZPX", "LSR">>, <<"ZPX", "NOP">>,
    <<"Impl", "CLI">>, <<"AbsY", "EOR">>, <<"Impl", "NOP">>, <<"AbsY", "NOP">>,
    <<"AbsX", "NOP">>, <<"AbsX", "EOR">>, <<"AbsX", "LSR">>, <<"AbsX", "NOP">>,
    <<"Impl", "RTS">>, <<"IndX", "ADC">>, <<"Impl", "NOP">>, <<"IndX", "NOP">>,
    <<"ZP", "NOP">>, <<"ZP", "ADC">>, <<"ZP", "ROR">>, <<"ZP", "NOP">>,
    <<"Impl", "PLA">>, <<"Imm", "ADC">>, <<"Accum", "ROR">>, <<"Imm", "NOP">>,
    <<"AbsInd", "JMP">>, <<"Abs", "ADC">>, <<"Abs", "ROR">>, <<"Abs", "NOP">>,
    <<"Rel", "BVS">>, <<"IndY", "ADC">>, <<"Impl", "NOP">>, <<"IndY", "NOP">>,
    <<"ZPX", "NOP">>, <<"ZPX", "ADC">>, <<"ZPX", "ROR">>, <<"ZPX", "NOP">>,
    <<"Impl", "SEI">>, <<"AbsY", "ADC">>, <<"Impl", "NOP">>, <<"AbsY", "NOP">>,
    <<"AbsX", "NOP">>, <<"AbsX", "ADC">>, <<"AbsX", "ROR">>, <<"AbsX", "NOP">>,
    <<"Imm", "NOP">>, <<"IndX", "STA">>, <<"Imm", "NOP">>, <<"IndX", "NOP">>,
    <<"ZP", "STY">>, <<"ZP", "STA">>, <<"ZP", "STX">>, <<"ZP", "NOP">>,
    <<"Impl", "DEY">>, <<"Imm", "NOP">>, <<"Impl", "TXA">>, <<"Imm", "NOP">>,
    <<"Abs", "STY">>, <<"Abs", "STA">>, <<"Abs", "STX">>, <<"Abs", "NOP">>,
    <<"Rel", "BCC">>, <<"IndY", "STA">>, <<"Impl", "NOP">>, <<"IndY", "NOP">>,
    <<"ZPX", "STY">>, <<"ZPX", "STA">>, <<"ZPY", "STX">>, <<"ZPY", "NOP">>,
    <<"Impl", "TYA">>, <<"AbsY", "STA">>, <<"Impl", "TXS">>, <<"AbsY", "NOP">>,
    <<"AbsX", "NOP">>, <<"AbsX", "STA">>, <<"AbsY", "NOP">>, <<"AbsY", "NOP">>,
    <<"Imm", "LDY">>, <<"IndX", "LDA">>, <<"Imm", "LDX">>, <<"IndX", "NOP">>,
    <<"ZP", "LDY">>, <<"ZP", "LDA">>, <<"ZP", "LDX">>, <<"ZP", "NOP">>,
    <<"Impl", "TAY">>, <<"Imm", "LDA">>, <<"Impl", "TAX">>, <<"Imm", "NOP">>,
    <<"Abs", "LDY">>, <<"Abs", "LDA">>, <<"Abs", "LDX">>, <<"Abs", "NOP">>,
    <<"Rel", "BCS">>, <<"IndY", "LDA">>, <<"Impl", "NOP">>, <<"IndY", "NOP">>,
    <<"ZPX", "LDY">>, <<"ZPX", "LDA">>, <<"ZPY", "LDX">>, <<"ZPY", "NOP">>,
    <<"Impl", "CLV">>, <<"AbsY", "LDA">>, <<"Impl", "TSX">>, <<"AbsY", "NOP">>,
    <<"AbsX", "LDY">>, <<"AbsX", "LDA">>, <<"AbsY", "LDX">>, <<"AbsY", "NOP">>,
    <<"Imm", "CPY">>, <<"IndX", "CMP">>, <<"Imm", "NOP">>, <<"IndX", "NOP">>,
    <<"ZP", "CPY">>, <<"ZP", "CMP">>, <<"ZP", "DEC">>, <<"ZP", "NOP">>,
    <<"Impl", "INY">>, <<"Imm", "CMP">>, <<"Impl", "DEX">>, <<"Imm", "NOP">>,
    <<"Abs", "CPY">>, <<"Abs", "CMP">>, <<"Abs", "DEC">>, <<"Abs", "NOP">>,
    <<"Rel", "BNE">>, <<"IndY", "CMP">>, <<"Impl", "NOP">>, <<"IndY", "NOP">>,
    <<"ZPX", "NOP">>, <<"ZPX", "CMP">>, <<"ZPX", "DEC">>, <<"ZPX", "NOP">>,
    <<"Impl", "CLD">>, <<"AbsY", "CMP">>, <<"Impl", "NOP">>, <<"AbsY", "NOP">>,
    <<"AbsX", "NOP">>, <<"AbsX", "CMP">>, <<"AbsX", "DEC">>, <<"AbsX", "NOP">>,
    <<"Imm", "CPX">>, <<"IndX", "SBC">>, <<"Imm", "NOP">>, <<"IndX", "NOP">>,
    <<"ZP", "CPX">>, <<"ZP", "SBC">>, <<"ZP", "INC">>, <<"ZP", "NOP">>,
    <<"Impl", "INX">>, <<"Imm", "SBC">>, <<"Impl", "NOP">>, <<"Imm", "SBC">>,
    <<"Abs", "CPX">>, <<"Abs", "SBC">>, <<"Abs", "INC">>, <<"Abs", "NOP">>,
    <<"Rel", "BEQ">>, <<"IndY", "SBC">>, <<"Impl", "NOP">>, <<"IndY", "NOP">>,
    <<"ZPX", "NOP">>, <<"ZPX", "SBC">>, <<"ZPX", "INC">>, <<"ZPX", "NOP">>,
    <<"Impl", "SED">>, <<"AbsY", "SBC">>, <<"Impl", "NOP">>, <<"AbsY", "NOP">>,
    <<"AbsX", "NOP">>, <<"AbsX", "SBC">>, <<"AbsX", "INC">>, <<"AbsX", "NOP">>
  >>

decode_instruction(instr) == DecodeTable[instr + 1]

----------------------------------------------------------------------------
(* The PRG image (16 KiB, so $8000-$BFFF and $C000-$FFFF show the same     *)
(* bytes).  PrgByte(i) is byte i of the image.                             *)
(*   $8000  NOP ; LDA #$05 ; STA $0010 ; PHA ; PLA ; CLI ; BRK             *)
(*   $8040  NOP ; JMP $8000        (NMI handler)                           *)
(*   $8060  NOP ; RTI              (IRQ/BRK handler)                       *)
(*   $FFFA  $8040, $FFFC  $8000, $FFFE  $8060                              *)
(* Every other byte is $EA (NOP).                                          *)

PrgImage ==
  (0 :> 234) @@ (1 :> 169) @@ (2 :> 5) @@ (3 :> 141) @@ (4 :> 16) @@ (5 :> 0) @@
  (6 :> 72) @@ (7 :> 104) @@ (8 :> 88) @@ (9 :> 0) @@
  (64 :> 234) @@ (65 :> 76) @@ (66 :> 0) @@ (67 :> 128) @@
  (96 :> 234) @@ (97 :> 64) @@
  (16378 :> 64) @@ (16379 :> 128) @@ (16380 :> 0) @@ (16381 :> 128) @@
  (16382 :> 96) @@ (16383 :> 128)

PrgByte(i) == IF i \in DOMAIN PrgImage THEN PrgImage[i] ELSE 234

PrgLen(cart) == IF cart.is_16k THEN 16384 ELSE 32768

----------------------------------------------------------------------------
(* devices/cartridge/nrom.rs: the PRG side.  peek_prg returns              *)
(* [panic, res]: the index `addr - 0x3FE0` is a u16 subtraction, and       *)
(* prg[idx] is a checked index.                                            *)

prg_at(cart, idx) ==
  IF idx >= PrgLen(cart)
  THEN [panic |-> "index out of bounds", res |-> Unmapped]
  ELSE [panic |-> NoPanic, res |-> Result(PrgByte(idx % 16384))]

peek_prg(cart, addr, oc) ==
  IF addr < 16352 /\ oc
  THEN [panic |-> "attempt to subtract with overflow", res |-> Unmapped]
  ELSE prg_at(cart, IF cart.is_16k
                    THEN And(U16(addr + 65536 - 16352), 16383)
                    ELSE U16(addr + 65536 - 16352))

(* devices/mem.rs: Ram *)
RamLen == 2048

ram_peek(ram, addr) == IF addr > RamLen THEN Unmapped ELSE Result(Get(ram, addr))
ram_read(ram, addr, last_bus_value) == unwrap(ram_peek(ram, addr), last_bus_value)
ram_write(ram, addr, value) == Put(ram, addr, value)

----------------------------------------------------------------------------
(* devices/bus.rs: Range::map and cpu_memory_map::match_addr *)

(* the variant delivers the offset into the range without the mask *)
range_map_no_mask(start, end, mask, test_addr) ==
  IF test_addr < start \/ test_addr > end THEN [some |-> FALSE, addr |-> 0]
  ELSE [some |-> TRUE, addr |-> test_addr - start]

range_map(start, end, mask, test_addr) ==
  IF test_addr < start \/ test_addr > end THEN [some |-> FALSE, addr |-> 0]
  ELSE [some |-> TRUE, addr |-> And(test_addr - start, mask)]

cpu_match_addr(addr) ==
  IF range_map(16416, 65535, 65535, addr).some
  THEN [device |-> "Cartridge", addr |-> range_map(16416, 65535, 65535, addr).addr]
  ELSE IF range_map(0, 8191, 2047, addr).some
       THEN [device |-> "RAM", addr |-> range_map(0, 8191, 2047, addr).addr]
       ELSE [device |-> "Unmapped", addr |-> addr]

----------------------------------------------------------------------------
(* devices/nes.rs: impl Motherboard for Nes.  The arms of read and write   *)
(* for Device::PPUControl name a device that cpu_memory_map does not have  *)
(* and match_addr never yields; they are never taken and are left out.     *)

(* the tail of read: `self.last_bus_value = res; res` *)
latch_read(mb, res) == [mb EXCEPT !.last_bus_value = res, !.ret = res]

(* the Cartridge arm of read; pk is the outcome of peek_prg *)
cart_read(mb, pk) ==
  IF pk.panic # NoPanic THEN Panic(mb, pk.panic)
  ELSE latch_read(mb, unwrap(pk.res, mb.last_bus_value))

(* the match of read; m is the (device, addr) of match_addr *)
device_read(mb, m) ==
  CASE m.device = "Cartridge" -> cart_read(mb, peek_prg(mb.cart, m.addr, mb.oc))
    [] m.device = "RAM" -> latch_read(mb, ram_read(mb.ram, m.addr, mb.last_bus_value))
    [] OTHER -> latch_read(mb, mb.last_bus_value)

nes_read(mb, addr0) == device_read(mb, cpu_match_addr(addr0))

(* BusPeekResult::to_optional: Some(val) or None *)
to_optional(r) ==
  IF r.kind = "Result" THEN [some |-> TRUE, val |-> r.val] ELSE [some |-> FALSE, val |-> 0]

(* fn peek(&self): mb.ret is the Option<u8>; the motherboard is borrowed   *)
(* immutably and comes back as it was                                      *)
cart_peek(mb, p) ==
  IF p.panic # NoPanic THEN Panic(mb, p.panic) ELSE Ret(mb, to_optional(p.res))
device_peek(mb, m) ==
  CASE m.device = "Cartridge" -> cart_peek(mb, peek_prg(mb.cart, m.addr, mb.oc))
    [] m.device = "RAM" -> Ret(mb, to_optional(ram_peek(mb.ram, m.addr)))
    [] OTHER -> Ret(mb, to_optional(Unmapped))
nes_peek(mb, addr0) == device_peek(mb, cpu_match_addr(addr0))

(* write without its tail `self.last_bus_value = data` *)
device_write_no_latch(mb, m, data) ==
  CASE m.device = "Cartridge" -> mb
    [] m.device = "RAM" -> [mb EXCEPT !.ram = ram_write(@, m.addr, data)]
    [] OTHER -> mb

(* the match of write, and its tail `self.last_bus_value = data` *)
device_write(mb, m, data) ==
  CASE m.device = "Cartridge" -> [mb EXCEPT !.last_bus_value = data]
    [] m.device = "RAM" ->
         [mb EXCEPT !.ram = ram_write(@, m.addr, data), !.last_bus_value = data]
    [] OTHER -> [mb EXCEPT !.last_bus_value = data]

nes_write(mb, addr0, data) == device_write(mb, cpu_match_addr(addr0), data)

----------------------------------------------------------------------------
(* devices/cpu/structs.rs: Status *)

CARRY == 1
ZERO == 2
IRQ_DISABLE == 4
DECIMAL == 8
BREAK == 16
UNUSED == 32
OVERFLOW == 64
NEGATIVE == 128

NMI_VECTOR == 65530
RESET_VECTOR == 65532
IRQ_VECTOR == 65534

----------------------------------------------------------------------------
(* devices/cpu/utils.rs: the bus! and adj_cycles! macros.  cpu.cycles is a *)
(* u32 adjusted with wrapping_add; fetch_opcode adds 3 before any negative *)
(* adjustment, so the sum never leaves 0..2^32-1 here.                     *)

bus_read(mb, addr) == nes_read([mb EXCEPT !.cpu.cycles = @ + 1], addr)
bus_write(mb, addr, data) == nes_write([mb EXCEPT !.cpu.cycles = @ + 1], addr, data)
adj_cycles(mb, delta) == [mb EXCEPT !.cpu.cycles = @ + delta]

(* two bus reads joined by bytes_to_addr!: mb.ret is the 16-bit result.    *)
(* pair_second takes the motherboard after the second read, pair_first     *)
(* the one after the first.                                                *)
pair_second(r, fst) == IF r.panic # NoPanic THEN r ELSE Ret(r, bytes_to_addr(fst, r.ret))
pair_first(r, snd_addr) ==
  IF r.panic # NoPanic THEN r ELSE pair_second(bus_read(r, snd_addr), r.ret)
read_pair(mb, fst_addr, snd_addr) == pair_first(bus_read(mb, fst_addr), snd_addr)

(* devices/cpu/cpu.rs *)

set_flag(mb, flag) == [mb EXCEPT !.cpu.status = Or(@, flag)]
clear_flag(mb, flag) == [mb EXCEPT !.cpu.status = And(@, Not8(flag))]
adv_pc(mb, increment) == [mb EXCEPT !.cpu.pc = U16(@ + increment)]

(* the stack pointer stopping at $00 instead of wrapping to $FF *)
dec_stack_saturating(mb) == [mb EXCEPT !.cpu.stack = IF @ = 0 THEN 0 ELSE @ - 1]

dec_stack(mb) == [mb EXCEPT !.cpu.stack = U8(@ + 255)]
inc_stack(mb) == [mb EXCEPT !.cpu.stack = U8(@ + 1)]

push_stack(mb, data) == Then(bus_write(mb, bytes_to_addr(mb.cpu.stack, 1), data), dec_stack)

stack_read(mb) == bus_read(mb, bytes_to_addr(mb.cpu.stack, 1))
pop_stack(mb) == stack_read(inc_stack(mb))

check_zero(mb, val) == IF val = 0 THEN set_flag(mb, ZERO) ELSE clear_flag(mb, ZERO)
check_negative(mb, op) ==
  IF And(op, 128) # 0 THEN set_flag(mb, NEGATIVE) ELSE clear_flag(mb, NEGATIVE)

(* pub fn tick: mb.ret is the returned bool *)
cpu_tick(mb) ==
  IF mb.cpu.cycles > 0
  THEN Ret([mb EXCEPT !.cpu.tot_cycles = @ + 1, !.cpu.cycles = @ - 1], FALSE)
  ELSE Ret(mb, TRUE)

trigger_nmi(mb) ==
  [mb EXCEPT !.cpu.interrupt_pending = TRUE, !.cpu.maskable_interrupt = FALSE]

trigger_irq(mb) ==
  IF And(mb.cpu.status, IRQ_DISABLE) # 0 THEN mb
  ELSE [mb EXCEPT !.cpu.interrupt_pending = TRUE, !.cpu.maskable_interrupt = TRUE]

(* the steps of run_interrupt and op_brk *)
push_pc_hi(mb) == push_stack(mb, Shr(mb.cpu.pc, 8))
push_pc_lo(mb) == push_stack(mb, And(mb.cpu.pc, 255))
push_status(mb) == push_stack(mb, mb.cpu.status)
set_pc(r) == [r EXCEPT !.cpu.pc = r.ret]
load_pc(mb, vector) ==
  IF mb.panic # NoPanic THEN mb
  ELSE Then(read_pair(mb, vector, U16(vector + 1)), set_pc)
load_vector(mb, is_maskable) ==
  Ret(load_pc(mb, IF is_maskable THEN IRQ_VECTOR ELSE NMI_VECTOR), TRUE)
interrupt_flags(mb) == set_flag(clear_flag(mb, BREAK), UNUSED)

(* fn run_interrupt: mb.ret is the returned bool.  pc is pushed before the *)
(* flags change, so the three pushes read it from the same registers.      *)
run_interrupt(mb) ==
  IF ~mb.cpu.interrupt_pending THEN Ret(mb, FALSE)
  ELSE load_vector(Then(Then(Then(push_pc_hi([mb EXCEPT !.cpu.interrupt_pending = FALSE]),
                                  push_pc_lo),
                             interrupt_flags),
                        push_status),
                   mb.cpu.maskable_interrupt)

(* fn fetch_opcode: mb.ret is the returned u32; each operator takes the    *)
(* motherboard after the previous read                                     *)
fetch_word(r, opcode, operand1) ==
  IF r.panic # NoPanic THEN r ELSE Ret(r, opcode + 256 * operand1 + 65536 * r.ret)
fetch_operand2(r, pc, opcode) ==
  IF r.panic # NoPanic THEN r ELSE fetch_word(bus_read(r, U16(pc + 2)), opcode, r.ret)
fetch_operand1(r, pc) ==
  IF r.panic # NoPanic THEN r ELSE fetch_operand2(bus_read(r, U16(pc + 1)), pc, r.ret)
fetch_opcode(mb) == fetch_operand1(bus_read(mb, mb.cpu.pc), mb.cpu.pc)

(* fn decode_opcode *)
decode_fields(mb, instruction, instr) ==
  [mb EXCEPT !.cpu.instruction = instruction,
             !.cpu.addr_mode = instr[1],
             !.cpu.instr = instr[2]]
decode_opcode(mb, instruction) ==
  decode_fields(mb, instruction, decode_instruction(instruction % 256))

(* pub fn reset *)
reset_registers(r) ==
  IF r.cpu.stack < 3 /\ r.oc THEN Panic(r, "attempt to subtract with overflow")
  ELSE [r EXCEPT !.cpu.stack = U8(@ + 253),
                 !.cpu.status = Or(@, IRQ_DISABLE),
                 !.cpu.pc = r.ret]
cpu_reset(mb) == Then(read_pair(mb, RESET_VECTOR, RESET_VECTOR + 1), reset_registers)

----------------------------------------------------------------------------
(* devices/cpu/cpu.rs: addressing *)

(* instruction.to_le_bytes()[k] *)
ops(instruction, k) == (instruction \div (256 ^ k)) % 256

(* (b as i8) as u16 *)
sign_extend(b) == IF b >= 128 THEN b + 65280 ELSE b

(* the variant never charges the oops cycle *)
oops_never(m, idx, lo) == m

(* the oops cycle of the indexed modes *)
oops(m, idx, lo) ==
  IF And(idx + lo, 256) = 256
  THEN [adj_cycles(m, 1) EXCEPT !.cpu.oops_cycle = TRUE]
  ELSE m

(* IndY after its two reads: r.ret is the pointer read, fst its low byte *)
ind_y_addr(r) == Ret(oops(r, r.cpu.y, And(r.ret, 255)), U16(r.ret + r.cpu.y))
(* IndX after its two reads *)
ind_x_addr(r) == adj_cycles(r, 1)

(* AbsInd: addr_snd, the address of the high byte of the target. The     *)
(* variant carries into the high byte of the pointer, as a 16-bit          *)
(* increment would.                                                        *)
abs_ind_second_carry(o1, o2) == U16(bytes_to_addr(o1, o2) + 1)
abs_ind_second(o1, o2) == bytes_to_addr(U8(o1 + 1), o2)

(* the match of get_addr on the addressing mode; m0 is the motherboard     *)
(* after `adv_pc(mb, 1); oops_cycle = false`, o1 and o2 are ops[1], ops[2] *)
addr_mode_match(m0, o1, o2) ==
  CASE m0.cpu.addr_mode = "Abs" -> Ret(adv_pc(m0, 2), bytes_to_addr(o1, o2))
    [] m0.cpu.addr_mode = "AbsInd" ->
         read_pair(adv_pc(m0, 2), bytes_to_addr(o1, o2), abs_ind_second(o1, o2))
    [] m0.cpu.addr_mode = "AbsX" ->
         Ret(oops(adv_pc(m0, 2), m0.cpu.x, o1), U16(bytes_to_addr(o1, o2) + m0.cpu.x))
    [] m0.cpu.addr_mode = "AbsY" ->
         Ret(oops(adv_pc(m0, 2), m0.cpu.y, o1), U16(bytes_to_addr(o1, o2) + m0.cpu.y))
    [] m0.cpu.addr_mode = "Accum" -> Ret(adj_cycles(m0, -1), 0)
    [] m0.cpu.addr_mode = "Imm" -> Ret(adj_cycles(adv_pc(m0, 1), -1), 0)
    [] m0.cpu.addr_mode = "Impl" -> Ret(adj_cycles(m0, -1), 0)
    [] m0.cpu.addr_mode = "IndX" ->
         Then(read_pair(adv_pc(adj_cycles(m0, -1), 1),
                        U8(o1 + m0.cpu.x), U8(U8(o1 + m0.cpu.x) + 1)),
              ind_x_addr)
    [] m0.cpu.addr_mode = "IndY" ->
         Then(read_pair(adv_pc(adj_cycles(m0, -1), 1), o1, U8(o1 + 1)), ind_y_addr)
    [] m0.cpu.addr_mode = "Rel" ->
         Ret(adj_cycles(adv_pc(m0, 1), -1), U16(U16(m0.cpu.pc + 1) + sign_extend(o1)))
    [] m0.cpu.addr_mode = "ZP" -> Ret(adj_cycles(adv_pc(m0, 1), -1), bytes_to_addr(o1, 0))
    [] m0.cpu.addr_mode = "ZPX" -> Ret(adv_pc(m0, 1), bytes_to_addr(U8(o1 + m0.cpu.x), 0))
    [] m0.cpu.addr_mode = "ZPY" ->
         Ret(adj_cycles(adv_pc(m0, 1), -1), bytes_to_addr(U8(o1 + m0.cpu.y), 0))

(* the variant leaves out the advance over the opcode byte *)
get_addr_no_opcode_byte(mb, instruction) ==
  addr_mode_match([mb EXCEPT !.cpu.oops_cycle = FALSE],
                  ops(instruction, 1), ops(instruction, 2))

(* fn get_addr: mb.ret is the returned address *)
get_addr(mb, instruction) ==
  addr_mode_match([adv_pc(mb, 1) EXCEPT !.cpu.oops_cycle = FALSE],
                  ops(instruction, 1), ops(instruction, 2))

(* fn read: the operand; mb.ret is the byte *)
cpu_read(mb) ==
  CASE mb.cpu.addr_mode = "Imm" -> Ret(mb, ops(mb.cpu.instruction, 1))
    [] mb.cpu.addr_mode = "Accum" -> Ret(mb, mb.cpu.acc)
    [] OTHER -> bus_read(mb, mb.cpu.addr)

(* fn write *)
cpu_write(mb, data) == nes_write(adj_cycles(mb, 1), mb.cpu.addr, data)

----------------------------------------------------------------------------
(* devices/cpu/cpu.rs: the opcode handlers *)

brk_flags(mb) == set_flag(set_flag(mb, BREAK), UNUSED)
load_brk(mb) == load_pc(mb, IRQ_VECTOR)

op_brk(mb) ==
  Then(Then(Then(Then(push_pc_hi(mb), push_pc_lo), brk_flags), push_status), load_brk)

op_cli(mb) == clear_flag(mb, IRQ_DISABLE)
op_sei(mb) == set_flag(mb, IRQ_DISABLE)

op_jmp(mb) ==
  IF mb.cpu.addr_mode # "Abs" /\ mb.cpu.addr_mode # "AbsInd"
  THEN [adj_cycles(mb, 1) EXCEPT !.cpu.pc = mb.cpu.addr]
  ELSE [mb EXCEPT !.cpu.pc = mb.cpu.addr]

(* the steps of op_rti; each takes the motherboard after the pop before it *)
rti_status(r) == [r EXCEPT !.cpu.status = Or(r.ret, UNUSED)]
rti_pc(r, fst) ==
  IF r.panic # NoPanic THEN r
  ELSE adj_cycles([r EXCEPT !.cpu.pc = bytes_to_addr(fst, r.ret)], 1)
rti_pop_hi(r) == rti_pc(pop_stack(r), r.ret)

op_rti(mb) == Then(Then(Then(pop_stack(mb), rti_status), pop_stack), rti_pop_hi)

(* `acc = value` followed by check_zero and check_negative *)
load_acc(r) == check_negative(check_zero([r EXCEPT !.cpu.acc = r.ret], r.ret), r.ret)

op_lda(mb) == Then(cpu_read(mb), load_acc)

op_nop(mb) == mb

sta_undo_oops(m) == IF m.cpu.oops_cycle THEN adj_cycles(m, -1) ELSE m
sta_correction(m) ==
  IF m.cpu.addr_mode \in {"IndY", "AbsX", "AbsY"} THEN adj_cycles(m, 1) ELSE m

op_sta(mb) == sta_correction(sta_undo_oops(cpu_write(mb, mb.cpu.acc)))

op_pha(mb) == push_stack(mb, mb.cpu.acc)

pla_cycle(m) == adj_cycles(m, 1)
op_pla(mb) == Then(Then(pop_stack(mb), load_acc), pla_cycle)

(* fn check_carry: val is a u16 *)
check_carry(mb, val) ==
  IF And(val, 256) = 256 THEN set_flag(mb, CARRY) ELSE clear_flag(mb, CARRY)

(* fn check_overflow: `res = left + right`, the carry is not added *)
check_overflow(mb, left, right) ==
  IF And(And(Xor(left, left + right), Xor(right, left + right)), 128) # 0
  THEN set_flag(mb, OVERFLOW)
  ELSE clear_flag(mb, OVERFLOW)

carry_in(mb) == IF And(mb.cpu.status, CARRY) # 0 THEN 1 ELSE 0

(* `acc = (0xFF & val) as u8` followed by check_zero and check_negative *)
store_acc(m, val) ==
  check_negative(check_zero([m EXCEPT !.cpu.acc = And(255, val)], And(255, val)),
                 And(255, val))

(* op_adc after `let op = read(mb)`: r.ret is op, val the Wrapping<u16> sum *)
adc_sum(r, val) == store_acc(check_overflow(check_carry(r, val), r.cpu.acc, r.ret), val)
adc_val(r) == adc_sum(r, U16(r.cpu.acc + r.ret + carry_in(r)))
op_adc(mb) == Then(cpu_read(mb), adc_val)

(* op_sbc after `let op = read(mb)`: val is acc - op - !carry in Wrapping<u16> *)
sbc_diff(r, val) ==
  store_acc(check_overflow(check_carry(r, Not16(val)), r.cpu.acc, Not8(r.ret)), val)
sbc_val(r) == sbc_diff(r, U16(131072 + r.cpu.acc - r.ret - (1 - carry_in(r))))
op_sbc(mb) == Then(cpu_read(mb), sbc_val)

(* Status::set *)
set_status(mb, flag, on) == IF on THEN set_flag(mb, flag) ELSE clear_flag(mb, flag)

(* check_zero followed by check_negative *)
zero_negative(m, val) == check_negative(check_zero(m, val), val)

(* AND EOR ORA: `acc op= read(mb)`; r.ret is the operand *)
and_acc(r) == zero_negative([r EXCEPT !.cpu.acc = And(@, r.ret)], And(r.cpu.acc, r.ret))
eor_acc(r) == zero_negative([r EXCEPT !.cpu.acc = Xor(@, r.ret)], Xor(r.cpu.acc, r.ret))
ora_acc(r) == zero_negative([r EXCEPT !.cpu.acc = Or(@, r.ret)], Or(r.cpu.acc, r.ret))
op_and(mb) == Then(cpu_read(mb), and_acc)
op_eor(mb) == Then(cpu_read(mb), eor_acc)
op_ora(mb) == Then(cpu_read(mb), ora_acc)

bit_flags(r) ==
  [check_zero(r, And(r.cpu.acc, r.ret))
     EXCEPT !.cpu.status = Or(And(@, 63), And(192, r.ret))]
op_bit(mb) == Then(cpu_read(mb), bit_flags)

(* ASL LSR ROL ROR: the cycle correction and the store of the result *)
shift_cycles(m) ==
  CASE m.cpu.addr_mode \in {"ZP", "ZPX", "Abs"} -> adj_cycles(m, 1)
    [] m.cpu.addr_mode = "AbsX" -> adj_cycles(m, 2)
    [] OTHER -> m
shift_store(m, res) ==
  IF m.cpu.addr_mode = "Accum" THEN [m EXCEPT !.cpu.acc = res] ELSE cpu_write(m, res)

asl_res(r) ==
  shift_store(shift_cycles(zero_negative(check_carry(r, r.ret * 2), And(255, r.ret * 2))),
              And(255, r.ret * 2))
op_asl(mb) == Then(cpu_read(mb), asl_res)

(* data is `u16::from(read(mb)) << 7`, with the carry in bit 15 for ROR *)
shift_right(r, data) ==
  shift_cycles(shift_store(zero_negative(set_status(r, CARRY, And(data, 128) = 128),
                                         Shr(data, 8)),
                           Shr(data, 8)))
lsr_res(r) == shift_right(r, Shl(r.ret, 7))
ror_res(r) == shift_right(r, Or(Shl(r.ret, 7), IF carry_in(r) = 1 THEN 32768 ELSE 0))
op_lsr(mb) == Then(cpu_read(mb), lsr_res)
op_ror(mb) == Then(cpu_read(mb), ror_res)

rol_data(r, data) ==
  shift_cycles(shift_store(zero_negative(set_status(r, CARRY, And(data, 256) = 256),
                                         And(data, 255)),
                           And(data, 255)))
rol_res(r) == rol_data(r, Or(Shl(r.ret, 1), carry_in(r)))
op_rol(mb) == Then(cpu_read(mb), rol_res)

(* the branches: `return` when the condition fails, else one cycle and pc = addr *)
branch(mb, taken) ==
  IF taken THEN [adj_cycles(mb, 1) EXCEPT !.cpu.pc = mb.cpu.addr] ELSE mb
op_bpl(mb) == branch(mb, And(mb.cpu.status, NEGATIVE) = 0)
op_bmi(mb) == branch(mb, And(mb.cpu.status, NEGATIVE) # 0)
op_bvc(mb) == branch(mb, And(mb.cpu.status, OVERFLOW) = 0)
op_bvs(mb) == branch(mb, And(mb.cpu.status, OVERFLOW) # 0)
op_bcc(mb) == branch(mb, And(mb.cpu.status, CARRY) = 0)
op_bcs(mb) == branch(mb, And(mb.cpu.status, CARRY) # 0)
op_beq(mb) == branch(mb, And(mb.cpu.status, ZERO) # 0)
op_bne(mb) == branch(mb, And(mb.cpu.status, ZERO) = 0)

(* CMP CPX CPY: r.ret is data, reg the register compared *)
compare(r, reg) ==
  zero_negative(set_status(r, CARRY, reg >= r.ret), U8(reg + 256 - r.ret))
cmp_acc(r) == compare(r, r.cpu.acc)
cmp_x(r) == compare(r, r.cpu.x)
cmp_y(r) == compare(r, r.cpu.y)
op_cmp(mb) == Then(cpu_read(mb), cmp_acc)
op_cpx(mb) == Then(cpu_read(mb), cmp_x)
op_cpy(mb) == Then(cpu_read(mb), cmp_y)

(* DEC INC: op is the byte written back *)
absx_cycle(m) == IF m.cpu.addr_mode = "AbsX" THEN adj_cycles(m, 1) ELSE m
store_mem(r, op) == absx_cycle(zero_negative(cpu_write(adj_cycles(r, 1), op), op))
dec_mem(r) == store_mem(r, U8(r.ret + 255))
inc_mem(r) == store_mem(r, U8(r.ret + 1))
op_dec(mb) == Then(cpu_read(mb), dec_mem)
op_inc(mb) == Then(cpu_read(mb), inc_mem)

op_clc(mb) == clear_flag(mb, CARRY)
op_sec(mb) == set_flag(mb, CARRY)
op_clv(mb) == clear_flag(mb, OVERFLOW)
op_cld(mb) == clear_flag(mb, DECIMAL)
op_sed(mb) == set_flag(mb, DECIMAL)

(* op_jsr: `pc - 1` is a plain u16 subtraction *)
jsr_push_hi(m) ==
  IF m.cpu.pc = 0 /\ m.oc THEN Panic(m, "attempt to subtract with overflow")
  ELSE push_stack(m, Shr(U16(m.cpu.pc + 65535), 8))
jsr_push_lo(m) == push_stack(m, And(U16(m.cpu.pc + 65535), 255))
jsr_jump(m) == adj_cycles([m EXCEPT !.cpu.pc = m.cpu.addr], 1)
op_jsr(mb) ==
  Then(Then(jsr_push_hi(IF mb.cpu.addr_mode # "Abs" THEN adj_cycles(mb, 1) ELSE mb),
            jsr_push_lo),
       jsr_jump)

rts_pc(r, fst) ==
  IF r.panic # NoPanic THEN r
  ELSE adj_cycles([r EXCEPT !.cpu.pc = U16(bytes_to_addr(fst, r.ret) + 1)], 2)
rts_pop_hi(r) == rts_pc(pop_stack(r), r.ret)
op_rts(mb) == Then(pop_stack(mb), rts_pop_hi)

(* LDX LDY and the register transfers *)
load_x(r, val) == zero_negative([r EXCEPT !.cpu.x = val], val)
load_y(r, val) == zero_negative([r EXCEPT !.cpu.y = val], val)
ldx_res(r) ==
  IF r.cpu.addr_mode \in {"ZPX", "ZPY"} THEN adj_cycles(load_x(r, r.ret), 1)
  ELSE load_x(r, r.ret)
ldy_res(r) == load_y(r, r.ret)
op_ldx(mb) == Then(cpu_read(mb), ldx_res)
op_ldy(mb) == Then(cpu_read(mb), ldy_res)

op_tax(mb) == load_x(mb, mb.cpu.acc)
op_txa(mb) == store_acc(mb, mb.cpu.x)
op_tay(mb) == load_y(mb, mb.cpu.acc)
op_tya(mb) == store_acc(mb, mb.cpu.y)
op_inx(mb) == load_x(mb, U8(mb.cpu.x + 1))
op_dex(mb) == load_x(mb, U8(mb.cpu.x + 255))
op_iny(mb) == load_y(mb, U8(mb.cpu.y + 1))
op_dey(mb) == load_y(mb, U8(mb.cpu.y + 255))

stx_cycle(m) == IF m.cpu.addr_mode = "ZPY" THEN adj_cycles(m, 1) ELSE m
op_stx(mb) == stx_cycle(cpu_write(mb, mb.cpu.x))
op_sty(mb) == cpu_write(mb, mb.cpu.y)

op_txs(mb) == [mb EXCEPT !.cpu.stack = mb.cpu.x]
op_tsx(mb) == load_x(mb, mb.cpu.stack)
op_php(mb) == push_stack(mb, Or(mb.cpu.status, 48))
plp_status(r) == adj_cycles([r EXCEPT !.cpu.status = Or(And(r.ret, 239), 32)], 1)
op_plp(mb) == Then(pop_stack(mb), plp_status)

(* fn exec_instr / match_handler *)
exec_instr(mb) ==
  CASE mb.cpu.instr = "BRK" -> op_brk(mb)
    [] mb.cpu.instr = "CLI" -> op_cli(mb)
    [] mb.cpu.instr = "SEI" -> op_sei(mb)
    [] mb.cpu.instr = "JMP" -> op_jmp(mb)
    [] mb.cpu.instr = "RTI" -> op_rti(mb)
    [] mb.cpu.instr = "LDA" -> op_lda(mb)
    [] mb.cpu.instr = "NOP" -> op_nop(mb)
    [] mb.cpu.instr = "STA" -> op_sta(mb)
    [] mb.cpu.instr = "PHA" -> op_pha(mb)
    [] mb.cpu.instr = "PLA" -> op_pla(mb)
    [] mb.cpu.instr = "ADC" -> op_adc(mb)
    [] mb.cpu.instr = "SBC" -> op_sbc(mb)
    [] mb.cpu.instr = "AND" -> op_and(mb)
    [] mb.cpu.instr = "EOR" -> op_eor(mb)
    [] mb.cpu.instr = "ORA" -> op_ora(mb)
    [] mb.cpu.instr = "BIT" -> op_bit(mb)
    [] mb.cpu.instr = "ASL" -> op_asl(mb)
    [] mb.cpu.instr = "LSR" -> op_lsr(mb)
    [] mb.cpu.instr = "ROL" -> op_rol(mb)
    [] mb.cpu.instr = "ROR" -> op_ror(mb)
    [] mb.cpu.instr = "BPL" -> op_bpl(mb)
    [] mb.cpu.instr = "BMI" -> op_bmi(mb)
    [] mb.cpu.instr = "BVC" -> op_bvc(mb)
    [] mb.cpu.instr = "BVS" -> op_bvs(mb)
    [] mb.cpu.instr = "BCC" -> op_bcc(mb)
    [] mb.cpu.instr = "BCS" -> op_bcs(mb)
    [] mb.cpu.instr = "BEQ" -> op_beq(mb)
    [] mb.cpu.instr = "BNE" -> op_bne(mb)
    [] mb.cpu.instr = "CMP" -> op_cmp(mb)
    [] mb.cpu.instr = "CPX" -> op_cpx(mb)
    [] mb.cpu.instr = "CPY" -> op_cpy(mb)
    [] mb.cpu.instr = "DEC" -> op_dec(mb)
    [] mb.cpu.instr = "INC" -> op_inc(mb)
    [] mb.cpu.instr = "CLC" -> op_clc(mb)
    [] mb.cpu.instr = "SEC" -> op_sec(mb)
    [] mb.cpu.instr = "CLV" -> op_clv(mb)
    [] mb.cpu.instr = "CLD" -> op_cld(mb)
    [] mb.cpu.instr = "SED" -> op_sed(mb)
    [] mb.cpu.instr = "JSR" -> op_jsr(mb)
    [] mb.cpu.instr = "RTS" -> op_rts(mb)
    [] mb.cpu.instr = "LDX" -> op_ldx(mb)
    [] mb.cpu.instr = "LDY" -> op_ldy(mb)
    [] mb.cpu.instr = "TAX" -> op_tax(mb)
    [] mb.cpu.instr = "TXA" -> op_txa(mb)
    [] mb.cpu.instr = "TAY" -> op_tay(mb)
    [] mb.cpu.instr = "TYA" -> op_tya(mb)
    [] mb.cpu.instr = "INX" -> op_inx(mb)
    [] mb.cpu.instr = "DEX" -> op_dex(mb)
    [] mb.cpu.instr = "INY" -> op_iny(mb)
    [] mb.cpu.instr = "DEY" -> op_dey(mb)
    [] mb.cpu.instr = "STX" -> op_stx(mb)
    [] mb.cpu.instr = "STY" -> op_sty(mb)
    [] mb.cpu.instr = "TXS" -> op_txs(mb)
    [] mb.cpu.instr = "TSX" -> op_tsx(mb)
    [] mb.cpu.instr = "PHP" -> op_php(mb)
    [] mb.cpu.instr = "PLP" -> op_plp(mb)

(* pub fn exec *)
exec_decode(m) == decode_opcode(m, m.ret)
store_addr(r) == [r EXCEPT !.cpu.addr = r.ret]
exec_get_addr(m) == Then(get_addr(m, m.cpu.instruction), store_addr)

exec(mb) ==
  Then(Then(Then(Then(run_interrupt(mb), fetch_opcode), exec_decode), exec_get_addr),
       exec_instr)

----------------------------------------------------------------------------
(* devices/ppu/ppu.rs: Ppu2C02 accessors *)

is_vblank(mb) == mb.ppu.vblank_nmi_ready
ack_vblank(mb) == [mb EXCEPT !.ppu.vblank_nmi_ready = FALSE]
is_frame_ready(mb) == mb.ppu.frame_ready

(* devices/nes.rs: Nes::tick.  mb.log records the calls made, in order. *)

(* `if self.ppu.is_vblank() { cpu::trigger_nmi(self); self.ppu.ack_vblank(); }` *)
forward_nmi(m) ==
  IF is_vblank(m)
  THEN Log(ack_vblank(Log(trigger_nmi(m), "trigger_nmi")), "ack_vblank")
  ELSE m

(* `self.is_cpu_idle = cpu::tick(self)` *)
set_idle(r) == [r EXCEPT !.is_cpu_idle = r.ret]
cpu_step(m) == set_idle(cpu_tick(Log(m, "cpu_tick")))

(* the variant starts an instruction on every CPU slot *)
cpu_on_slot_always_exec(m) == Then(exec(Log(m, "cpu_exec")), cpu_step)

(* what tick does on a CPU slot: exec when the CPU is idle, then cpu::tick *)
cpu_on_slot(m) == Then(IF m.is_cpu_idle THEN exec(Log(m, "cpu_exec")) ELSE m, cpu_step)

(* the CPU part of tick, stepping the CPU on every second master tick *)
cpu_slot_every_other(m) == IF m.cycles % 2 # 0 THEN m ELSE cpu_on_slot(m)

(* the CPU part of tick, from `if self.cycles % 3 != 0 { return; }` on *)
cpu_slot(m) == IF m.cycles % 3 # 0 THEN m ELSE cpu_on_slot(m)

tick(mb) ==
  Then(Then(clock(Log([mb EXCEPT !.cycles = @ + 1], "ppu_clock")), forward_nmi), cpu_slot)

(* the watchdog limit of Nes::tick_frame *)
MAX_CYCLES == 1000000

----------------------------------------------------------------------------
(* Bounds of the exploration *)

MaxClocks == 178688     \* clock() calls of a run without port operations
MidClocks == 2700       \* clock() calls after a first port operation at setup
ShortClocks == 3        \* clock() calls after any other port operation
SetupClocks == 1        \* port operations come within this many clocks of power-on ...
EndWindow == 4          \* ... or within this many clocks of MaxClocks
MaxPortOps == 2         \* port operations of a run
MaxTicks == 12          \* Nes::tick calls the caller makes itself
PreTicks == 1           \* tick_frame() is called after at most this many of them
MaxFrameCalls == 2      \* tick_frame() calls of a run
FrameChunk == 341       \* iterations of the tick_frame() loop in one step
MaxBusOps == 3          \* Motherboard::read / write calls of a run
MaxCpuOps == 4          \* CPU operations of a run
MaxSlots == 6           \* CPU slots of a run of a program

PortData == {8, 128}
CtrlData == {128}
BusAddrs == {16, 2064, 8194, 16404, 16406, 20480, 32769, 65532}
BusData == {85, 170}
DmaPages == {0}          \* pages written to $4014: $0000-$00FF of the RAM
StackInputs == {253, 1, 0}
StatusInputs == {36, 32}
PcInputs == {32768, 32774, 32777}
AccInputs == {0, 165}
AluAcc == {0, 80, 127, 128, 160, 255}
AluOperands == {0, 1, 80, 127, 176, 255}
AluPrograms == { <<105, 233>>, <<233, 105>> }    \* ADC # ; SBC # and SBC # ; ADC #

Min(a, b) == IF a < b THEN a ELSE b

----------------------------------------------------------------------------
(* The state: the fields of Nes and of the devices it owns, the outcome of *)
(* a panic, the build profile, and history variables describing the latest *)
(* operation.                                                              *)

VARIABLES
  cpu,            \* Cpu6502: the registers (state.*) and cycles, interrupt_pending, ...
  ppu,            \* Ppu2C02.state
  palette,        \* Ppu2C02.palette.palette_buffer
  ram,            \* Nes.ram
  cart,           \* Nes.cart (NROMCartridge)
  last_bus_value, \* Nes.last_bus_value
  cycles,         \* Nes.cycles
  is_cpu_idle,    \* Nes.is_cpu_idle
  panic,          \* "" while the program runs, else the panic message
  oc,             \* TRUE iff the build checks arithmetic overflow
  last,           \* history: the latest operation, its arguments and result
  n               \* history: counters of completed operations

vars == <<cpu, ppu, palette, ram, cart, last_bus_value, cycles, is_cpu_idle,
          panic, oc, last, n>>

nes_vars == <<cpu, ppu, palette, ram, cart, last_bus_value, cycles, is_cpu_idle>>

(* The motherboard as the operators above take it *)
MB ==
  [cpu |-> cpu, ppu |-> ppu, palette |-> palette, ram |-> ram, cart |-> cart,
   last_bus_value |-> last_bus_value, cycles |-> cycles, is_cpu_idle |-> is_cpu_idle,
   panic |-> NoPanic, oc |-> oc, ret |-> 0, log |-> <<>>]

(* devices/cpu/structs.rs: POWERON_CPU_STATE, and Cpu6502::new *)
POWERON_CPU_STATE ==
  [acc |-> 0, x |-> 0, y |-> 0, stack |-> 253, pc |-> 0, status |-> 36,
   tot_cycles |-> 7, instruction |-> 234, addr |-> 0, addr_mode |-> "Impl",
   instr |-> "NOP",
   cycles |-> 0, interrupt_pending |-> FALSE, maskable_interrupt |-> FALSE,
   oops_cycle |-> FALSE]

(* devices/ppu/structs.rs: PPU_POWERON_STATE.  `vec![0u8, n]` is read as   *)
(* the n zero bytes its fields are indexed as: oam 256, secondary_oam 64,   *)
(* frame_data 240 * 256 * 3.                                                *)
PPU_POWERON_STATE ==
  [v |-> 0, t |-> 0, x |-> 0, w |-> FALSE, oam_addr |-> 0, secondary_oam_addr |-> 0,
   bg_tile_hi_shift_reg |-> 0, bg_tile_lo_shift_reg |-> 0,
   bg_attr_hi_shift_reg |-> 0, bg_attr_lo_shift_reg |-> 0, bg_attr_latch |-> 0,
   sprite_tile_hi_shift_regs |-> [i \in 0..7 |-> 0],
   sprite_tile_lo_shift_regs |-> [i \in 0..7 |-> 0],
   ppudata_buffer |-> 0, temp_nt_byte |-> 0, temp_bg_hi_byte |-> 0,
   temp_bg_lo_byte |-> 0, temp_at_byte |-> 0, temp_oam_byte |-> 0,
   control |-> 0, mask |-> 0, status |-> 160,
   oam |-> [i \in 0..255 |-> 0], secondary_oam |-> [i \in 0..63 |-> 0],
   pixel_cycle |-> 0, scanline |-> 0, frame_ready |-> FALSE, frame_writes |-> <<>>,
   vblank_nmi_ready |-> FALSE, last_control_port_value |-> 0, last_bus_value |-> 0]

(* NROMCartridge::new for a 16 KiB image with the MIRRORING flag clear *)
NewCart == [nametable |-> EmptyMem, use_horizontal_mirroring |-> TRUE, is_16k |-> TRUE]

(* History: the latest operation (op), its arguments (a1, a2), what it    *)
(* returned (ret), the calls it made (log), and the parts of the state it  *)
(* started from that the properties below refer to.                        *)
(* What the environment has done at the PPU ports, kept apart from the     *)
(* PPU's own registers: the byte last written to a port (written), the     *)
(* byte last written to a port or returned by a PPUSTATUS or PPUDATA read  *)
(* (latch), the byte last written to PPUCTRL (ctrl), the first byte of a   *)
(* PPUADDR pair in progress (hi, -1 when none or when a PPUCTRL or         *)
(* PPUSCROLL write came in between and changed t) and the address the next *)
(* PPUDATA access is to use (expect, -1 when no PPUADDR pair fixed it).    *)
NoTrack == [written |-> 0, latch |-> 0, ctrl |-> 0, hi |-> -1, expect |-> -1]

NoOp ==
  [op |-> "new", a1 |-> 0, a2 |-> 0, ret |-> 0, log |-> <<>>,
   pre_v |-> 0, pre_buffer |-> 0, pre_latch |-> 0, pre_scanline |-> 0, pre_dot |-> 0,
   pre_cpu |-> POWERON_CPU_STATE, pre_idle |-> TRUE, irq |-> POWERON_CPU_STATE,
   pre_ppu |-> PPU_POWERON_STATE, pre_ram |-> EmptyMem, pre_trk |-> NoTrack,
   pre_palette |-> [i \in 0..31 |-> 0]]

(* History: how many clock() calls have completed since power-on, and how  *)
(* many operations of each kind the environment has issued; in_call and    *)
(* cycles_watchdog are the position of a tick_frame() call in its loop.    *)
(* nmi_cycles is what cpu.cycles was at the latest trigger_nmi (-1: none). *)
NoCounts == [clocks |-> 0, ports |-> 0, ticks |-> 0, calls |-> 0, bus |-> 0, cpu |-> 0,
             budget |-> 0, mapped_read |-> 0, bus_value |-> 0,
             in_call |-> FALSE, cycles_watchdog |-> 0, trk |-> NoTrack,
             slots |-> 0, instr_cpu |-> POWERON_CPU_STATE, built |-> TRUE,
             pal |-> 0, nmi_cycles |-> -1]

(* Nes::new: the reset vector is read straight from the bus *)
NesNew(m0) ==
  LET r1 == nes_read(m0, RESET_VECTOR)
      r2(m) == LET r == nes_read(m, RESET_VECTOR + 1)
               IN [r EXCEPT !.cpu.pc = bytes_to_addr(r1.ret, r.ret)]
  IN Then(r1, r2)

PowerOn(profile) ==
  NesNew([cpu |-> POWERON_CPU_STATE, ppu |-> PPU_POWERON_STATE,
          palette |-> [i \in 0..31 |-> 0], ram |-> EmptyMem, cart |-> NewCart,
          last_bus_value |-> 0, cycles |-> 0, is_cpu_idle |-> TRUE,
          panic |-> NoPanic, oc |-> profile, ret |-> 0, log |-> <<>>])

Init ==
  \E profile \in BOOLEAN :
    LET m == PowerOn(profile) IN
    /\ cpu = m.cpu /\ ppu = m.ppu /\ palette = m.palette /\ ram = m.ram
    /\ cart = m.cart /\ last_bus_value = m.last_bus_value /\ cycles = m.cycles
    /\ is_cpu_idle = m.is_cpu_idle /\ panic = m.panic /\ oc = profile
    /\ last = NoOp
    /\ n = [NoCounts EXCEPT !.budget = MaxClocks,
                            !.mapped_read = m.last_bus_value,
                            !.bus_value = m.last_bus_value]

(* The outcome of a call: its effects, or the panic that ended the program *)
Commit(r) ==
  IF r.panic # NoPanic
  THEN /\ panic' = r.panic
       /\ UNCHANGED nes_vars
  ELSE /\ panic' = NoPanic
       /\ cpu' = r.cpu /\ ppu' = r.ppu /\ palette' = r.palette /\ ram' = r.ram
       /\ cart' = r.cart /\ last_bus_value' = r.last_bus_value
       /\ cycles' = r.cycles /\ is_cpu_idle' = r.is_cpu_idle

Running == panic = NoPanic

----------------------------------------------------------------------------
(* devices/nes.rs: Nes::tick_frame.  The loop                              *)
(*   while !frame_ready { tick(); watchdog += 1; if watchdog > MAX { panic } } *)
(* runs at most MAX_CYCLES + 1 times; tick_frame_loop(st, k) runs up to k  *)
(* of its iterations from the loop state st (the motherboard and the       *)
(* watchdog), stopping as the loop does.                                   *)

loop_state(mb, w) ==
  [mb |-> mb, cycles_watchdog |-> w,
   stop |-> mb.panic # NoPanic \/ is_frame_ready(mb)]

watchdog(m, w) ==
  IF m.panic # NoPanic THEN loop_state(m, w - 1)
  ELSE IF w > MAX_CYCLES
       THEN loop_state(Panic(m, "Simulation error: Expected PPU to have a frame ready by now."), w)
       ELSE loop_state(m, w)

tick_frame_iter(st) ==
  watchdog(tick([st.mb EXCEPT !.log = <<>>]), st.cycles_watchdog + 1)

RECURSIVE tick_frame_loop(_, _)
tick_frame_loop(st, k) ==
  CASE st.stop -> st
    [] ~st.stop /\ k <= 1 -> tick_frame_iter(st)
    [] OTHER -> tick_frame_loop(tick_frame_loop(st, k \div 2), k - (k \div 2))

(* k consecutive calls of ppu::clock *)
RECURSIVE clock_n(_, _)
clock_n(mb, k) ==
  CASE mb.panic # NoPanic \/ k <= 0 -> mb
    [] mb.panic = NoPanic /\ k = 1 -> clock(mb)
    [] OTHER -> clock_n(clock_n(mb, k \div 2), k - (k \div 2))

----------------------------------------------------------------------------
(* The operations of the PPU: ppu::clock and the control ports *)

Hist(name, a1, a2, r) ==
  [NoOp EXCEPT !.op = name, !.a1 = a1, !.a2 = a2,
               !.ret = IF r.panic = NoPanic THEN r.ret ELSE 0,
               !.log = r.log,
               !.pre_v = ppu.v, !.pre_buffer = ppu.ppudata_buffer,
               !.pre_latch = last_bus_value,
               !.pre_scanline = ppu.scanline, !.pre_dot = ppu.pixel_cycle]

Done(r, k) == IF r.panic = NoPanic THEN k ELSE 0

Clock ==
  /\ Running
  /\ n.budget >= 1
  /\ \E r \in {clock(MB)} :
     /\ Commit(r)
     /\ last' = Hist("clock", 0, 0, r)
     /\ n' = [n EXCEPT !.clocks = @ + Done(r, 1), !.budget = @ - 1]
  /\ UNCHANGED oc

(* a whole scanline: 341 consecutive clock() calls from dot 0 *)
ClockLine ==
  /\ Running
  /\ ppu.pixel_cycle = 0
  /\ n.budget >= 341
  /\ \E r \in {clock_n(MB, 341)} :
     /\ r.panic = NoPanic
     /\ Commit(r)
     /\ last' = Hist("clock_line", 0, 0, r)
     /\ n' = [n EXCEPT !.clocks = @ + 341, !.budget = @ - 341]
  /\ UNCHANGED oc

PortWindow == n.clocks <= SetupClocks \/ n.clocks + EndWindow >= MaxClocks

PortBudget ==
  Min(n.budget, IF n.ports = 0 /\ n.clocks <= SetupClocks THEN MidClocks ELSE ShortClocks)

PortRead(port_addr) ==
  /\ Running
  /\ n.ports < MaxPortOps
  /\ PortWindow
  /\ \E r \in {control_port_read(MB, port_addr)} :
     /\ Commit(r)
     /\ last' = Hist("control_port_read", port_addr, 0, r)
     /\ n' = [n EXCEPT !.ports = @ + 1, !.budget = PortBudget]
  /\ UNCHANGED oc

PortWrite(port_addr, data) ==
  /\ Running
  /\ n.ports < MaxPortOps
  /\ PortWindow
  /\ \E r \in {control_port_write(MB, port_addr, data)} :
     /\ Commit(r)
     /\ last' = Hist("control_port_write", port_addr, data, r)
     /\ n' = [n EXCEPT !.ports = @ + 1, !.budget = PortBudget]
  /\ UNCHANGED oc

NextPpu ==
  \/ Clock
  \/ ClockLine
  \/ \E port_addr \in 0..7 : PortRead(port_addr)
  \/ \E port_addr \in 0..7, data \in PortData : PortWrite(port_addr, data)

SpecPpu == Init /\ [][NextPpu]_vars

----------------------------------------------------------------------------
(* The operations of the motherboard: Nes::tick and Nes::tick_frame.       *)
(* The CPU bus maps no PPU port (devices/bus.rs), so PPUCTRL is set by a   *)
(* direct call of ppu::control_port_write before the first tick.           *)

TickMaster ==
  /\ Running
  /\ ~n.in_call
  /\ n.ticks < MaxTicks
  /\ \E r \in {tick(MB)} :
     /\ Commit(r)
     /\ last' = [Hist("tick", 0, 0, r) EXCEPT !.pre_cpu = cpu, !.pre_idle = is_cpu_idle]
     /\ n' = [n EXCEPT !.ticks = @ + 1, !.clocks = @ + Done(r, 1)]
  /\ UNCHANGED oc

(* A step of a tick_frame() call: up to FrameChunk iterations of its loop,  *)
(* from the call or from where the previous step left the loop.  Nothing    *)
(* else runs until the loop has ended; the step that ends it is the return  *)
(* of the call, and last.ret is then the number of iterations it made.      *)
frame_hist(st) ==
  [NoOp EXCEPT !.op = IF st.stop THEN "tick_frame" ELSE "tick_frame_loop",
               !.ret = st.cycles_watchdog,
               !.pre_scanline = ppu.scanline, !.pre_dot = ppu.pixel_cycle,
               !.pre_cpu = cpu]

frame_counts(st) ==
  [n EXCEPT !.calls = IF st.stop THEN @ + 1 ELSE @,
            !.clocks = @ + (st.cycles_watchdog - n.cycles_watchdog),
            !.in_call = ~st.stop,
            !.cycles_watchdog = IF st.stop THEN 0 ELSE st.cycles_watchdog]

TickFrame ==
  /\ Running
  /\ n.in_call \/ (n.calls < MaxFrameCalls /\ n.ticks <= PreTicks)
  /\ \E st \in {tick_frame_loop(loop_state(MB, n.cycles_watchdog),
                                 Min(FrameChunk, MAX_CYCLES + 1 - n.cycles_watchdog))} :
     /\ Commit(st.mb)
     /\ last' = frame_hist(st)
     /\ n' = frame_counts(st)
  /\ UNCHANGED oc

SetControl(data) ==
  /\ n.clocks = 0
  /\ n.ports = 0
  /\ ~n.in_call
  /\ PortWrite(0, data)

NextNes ==
  \/ TickMaster
  \/ TickFrame
  \/ \E data \in CtrlData : SetControl(data)

SpecNes == Init /\ [][NextNes]_vars

----------------------------------------------------------------------------
(* The operations of the CPU bus: Motherboard::read and Motherboard::write *)

(* a read is mapped when a device answers it *)
IsMappedRead(addr) == cpu_match_addr(addr).device # "Unmapped"

BusRead(addr) ==
  /\ Running
  /\ n.bus < MaxBusOps
  /\ \E r \in {nes_read(MB, addr)} :
     /\ Commit(r)
     /\ last' = [Hist("read", addr, 0, r) EXCEPT !.pre_ppu = ppu, !.pre_cpu = cpu]
     /\ n' = [n EXCEPT !.bus = @ + 1,
                       !.mapped_read = IF r.panic = NoPanic /\ IsMappedRead(addr)
                                       THEN r.ret ELSE @,
                       !.bus_value = IF r.panic = NoPanic /\ IsMappedRead(addr)
                                     THEN r.ret ELSE @]
  /\ UNCHANGED oc

BusWrite(addr, data) ==
  /\ Running
  /\ n.bus < MaxBusOps
  /\ \E r \in {nes_write(MB, addr, data)} :
     /\ Commit(r)
     /\ last' = [Hist("write", addr, data, r)
                   EXCEPT !.pre_ppu = ppu, !.pre_cpu = cpu, !.pre_ram = ram]
     /\ n' = [n EXCEPT !.bus = @ + 1,
                       !.bus_value = IF r.panic = NoPanic THEN data ELSE @]
  /\ UNCHANGED oc

NextBus ==
  \/ \E addr \in BusAddrs : BusRead(addr)
  \/ \E addr \in BusAddrs, data \in BusData : BusWrite(addr, data)
  \/ \E page \in DmaPages : BusWrite(OAMDMA, page)

SpecBus == Init /\ [][NextBus]_vars

(* Motherboard::peek among the reads and writes *)
Peek(addr) ==
  /\ Running
  /\ n.bus < MaxBusOps
  /\ \E r \in {nes_peek(MB, addr)} :
     /\ Commit(r)
     /\ last' = [Hist("peek", addr, 0, r)
                   EXCEPT !.pre_ppu = ppu, !.pre_cpu = cpu, !.pre_ram = ram,
                          !.ret = IF r.panic = NoPanic THEN r.ret ELSE to_optional(Unmapped)]
     /\ n' = [n EXCEPT !.bus = @ + 1]
  /\ UNCHANGED oc

NextPeek ==
  \/ NextBus
  \/ \E addr \in BusAddrs : Peek(addr)

SpecPeek == Init /\ [][NextPeek]_vars

----------------------------------------------------------------------------
(* The operations of the CPU: cpu::exec, cpu::tick, cpu::trigger_nmi,      *)
(* cpu::trigger_irq and cpu::reset, from states in which the program has   *)
(* moved the stack pointer, the flags and the program counter.             *)

InitCpu ==
  \E profile \in BOOLEAN, s \in StackInputs, p \in StatusInputs, pc \in PcInputs,
     a \in AccInputs :
    LET m == PowerOn(profile) IN
    /\ cpu = [m.cpu EXCEPT !.stack = s, !.status = p, !.pc = pc, !.acc = a]
    /\ ppu = m.ppu /\ palette = m.palette /\ ram = m.ram
    /\ cart = m.cart /\ last_bus_value = m.last_bus_value /\ cycles = m.cycles
    /\ is_cpu_idle = m.is_cpu_idle /\ panic = m.panic /\ oc = profile
    /\ last = NoOp
    /\ n = [NoCounts EXCEPT !.budget = MaxClocks,
                            !.mapped_read = m.last_bus_value,
                            !.bus_value = m.last_bus_value]

(* the registers right after the interrupt step that opens cpu::exec *)
after_interrupt(i) == IF i.panic = NoPanic THEN i.cpu ELSE cpu

Exec ==
  /\ Running
  /\ n.cpu < MaxCpuOps
  /\ \E r \in {exec(MB)} :
     /\ Commit(r)
     /\ last' = [Hist("exec", 0, 0, r) EXCEPT !.pre_cpu = cpu, !.irq = after_interrupt(run_interrupt(MB))]
     /\ n' = [n EXCEPT !.cpu = @ + 1]
  /\ UNCHANGED oc

CpuTick ==
  /\ Running
  /\ n.cpu < MaxCpuOps
  /\ \E r \in {cpu_tick(MB)} :
     /\ Commit(r)
     /\ last' = [Hist("tick", 0, 0, r) EXCEPT !.pre_cpu = cpu, !.irq = cpu]
     /\ n' = [n EXCEPT !.cpu = @ + 1]
  /\ UNCHANGED oc

TriggerNmi ==
  /\ Running
  /\ n.cpu < MaxCpuOps
  /\ \E r \in {trigger_nmi(MB)} :
     /\ Commit(r)
     /\ last' = [Hist("trigger_nmi", 0, 0, r)
                   EXCEPT !.pre_cpu = cpu, !.irq = cpu, !.pre_ram = ram]
     /\ n' = [n EXCEPT !.cpu = @ + 1, !.nmi_cycles = cpu.cycles]
  /\ UNCHANGED oc

TriggerIrq ==
  /\ Running
  /\ n.cpu < MaxCpuOps
  /\ \E r \in {trigger_irq(MB)} :
     /\ Commit(r)
     /\ last' = [Hist("trigger_irq", 0, 0, r) EXCEPT !.pre_cpu = cpu, !.irq = cpu]
     /\ n' = [n EXCEPT !.cpu = @ + 1]
  /\ UNCHANGED oc

Reset ==
  /\ Running
  /\ n.cpu < MaxCpuOps
  /\ \E r \in {cpu_reset(MB)} :
     /\ Commit(r)
     /\ last' = [Hist("reset", 0, 0, r)
                   EXCEPT !.pre_cpu = cpu, !.irq = cpu, !.pre_ppu = ppu, !.pre_ram = ram]
     /\ n' = [n EXCEPT !.cpu = @ + 1]
  /\ UNCHANGED oc

NextCpu ==
  \/ Exec
  \/ CpuTick
  \/ TriggerNmi
  \/ TriggerIrq
  \/ Reset

SpecCpu == InitCpu /\ [][NextCpu]_vars

----------------------------------------------------------------------------
(* The PPU ports on their own: control_port_read and control_port_write    *)
(* called in any order, from power-on or from a state that a few port      *)
(* writes have set up, with no clock() in between (scanline 0, dot 0).     *)

MaxRegOps == 4

(* the number of PPUDATA writes that take v from $3FFF to $7FFF by steps   *)
(* of 32                                                                   *)
WrapRun == 512

(* port writes that set a state up: nothing; PPUCTRL with the increment    *)
(* of 32; $3F written to palette $3F10 and PPUADDR set back to $3F10;      *)
(* PPUADDR $3FFF and PPUDATA writes by 32 up to the last address, $7FFF    *)
PortSetups ==
  { <<>>,
    << <<0, 4>> >>,
    << <<6, 63>>, <<6, 16>>, <<7, 63>>, <<6, 63>>, <<6, 16>> >>,
    << <<0, 4>>, <<6, 63>>, <<6, 255>> >> \o [i \in 1..WrapRun |-> <<7, 0>>] }

(* the (port, byte) pairs written and the ports read *)
RegWrites ==
  { <<0, 4>>, <<3, 255>>, <<4, 7>>, <<4, 9>>, <<6, 63>>, <<6, 16>>, <<6, 0>>, <<7, 63>> }
RegReads == {2, 4, 7}

(* the PPUCTRL increment: 32 when bit 2 is set, 1 when it is clear *)
Increment(ctrl) == IF (ctrl \div 4) % 2 = 1 THEN 32 ELSE 1

track_access(trk, rendering) ==
  IF trk.expect >= 0 /\ ~rendering
  THEN (trk.expect + Increment(trk.ctrl)) % 32768
  ELSE -1

track_write(trk, mb, port_addr, data) ==
  CASE port_addr = 0 ->
         [trk EXCEPT !.written = data, !.latch = data, !.ctrl = data, !.hi = -1]
    [] port_addr = 5 -> [trk EXCEPT !.written = data, !.latch = data, !.hi = -1]
    [] port_addr = 6 /\ ~mb.ppu.w ->
         [trk EXCEPT !.written = data, !.latch = data, !.hi = data]
    [] port_addr = 6 /\ mb.ppu.w ->
         [trk EXCEPT !.written = data, !.latch = data, !.hi = -1,
                     !.expect = IF trk.hi >= 0 THEN (trk.hi % 64) * 256 + data ELSE -1]
    [] port_addr = 7 ->
         [trk EXCEPT !.written = data, !.latch = data,
                     !.expect = track_access(trk, is_rendering(mb))]
    [] OTHER -> [trk EXCEPT !.written = data, !.latch = data]

track_read(trk, mb, port_addr, ret) ==
  CASE port_addr = 2 -> [trk EXCEPT !.latch = ret, !.hi = -1]
    [] port_addr = 7 ->
         [trk EXCEPT !.latch = ret, !.expect = track_access(trk, is_rendering(mb))]
    [] OTHER -> trk

(* one port write of a setup, on the machine and on the trackers *)
port_step(st, w) ==
  [mb |-> control_port_write(st.mb, w[1], w[2]),
   trk |-> track_write(st.trk, st.mb, w[1], w[2])]

RECURSIVE run_setup(_, _)
run_setup(st, ws) ==
  CASE st.mb.panic # NoPanic \/ Len(ws) = 0 -> st
    [] Len(ws) = 1 -> port_step(st, ws[1])
    [] OTHER -> run_setup(run_setup(st, SubSeq(ws, 1, Len(ws) \div 2)),
                          SubSeq(ws, Len(ws) \div 2 + 1, Len(ws)))

InitPort ==
  \E profile \in BOOLEAN, setup \in PortSetups :
    \E st \in {run_setup([mb |-> PowerOn(profile), trk |-> NoTrack], setup)} :
      /\ cpu = st.mb.cpu /\ ppu = st.mb.ppu /\ palette = st.mb.palette
      /\ ram = st.mb.ram /\ cart = st.mb.cart
      /\ last_bus_value = st.mb.last_bus_value /\ cycles = st.mb.cycles
      /\ is_cpu_idle = st.mb.is_cpu_idle /\ panic = st.mb.panic /\ oc = profile
      /\ last = NoOp
      /\ n = [NoCounts EXCEPT !.trk = st.trk]

RegRead(port_addr) ==
  /\ Running
  /\ n.ports < MaxRegOps
  /\ \E r \in {control_port_read(MB, port_addr)} :
     /\ Commit(r)
     /\ last' = [Hist("control_port_read", port_addr, 0, r)
                   EXCEPT !.pre_ppu = ppu, !.pre_trk = n.trk]
     /\ n' = [n EXCEPT !.ports = @ + 1,
                       !.trk = IF r.panic = NoPanic
                               THEN track_read(@, MB, port_addr, r.ret) ELSE @]
  /\ UNCHANGED oc

RegWrite(port_addr, data) ==
  /\ Running
  /\ n.ports < MaxRegOps
  /\ \E r \in {control_port_write(MB, port_addr, data)} :
     /\ Commit(r)
     /\ last' = [Hist("control_port_write", port_addr, data, r)
                   EXCEPT !.pre_ppu = ppu, !.pre_trk = n.trk]
     /\ n' = [n EXCEPT !.ports = @ + 1,
                       !.trk = IF r.panic = NoPanic
                               THEN track_write(@, MB, port_addr, data) ELSE @]
  /\ UNCHANGED oc

NextPort ==
  \/ \E port_addr \in RegReads : RegRead(port_addr)
  \/ \E w \in RegWrites : RegWrite(w[1], w[2])

SpecPort == InitPort /\ [][NextPort]_vars

(* The writes that build t: PPUCTRL, PPUSCROLL and PPUADDR written in any  *)
(* order from power-on, with PPUSTATUS reads (which clear w and the vblank *)
(* flag) between them.                                                     *)
ScrollWrites ==
  { <<0, 3>>, <<0, 128>>, <<0, 130>>, <<5, 0>>, <<5, 125>>, <<5, 255>>, <<6, 63>>, <<6, 255>> }

NextRegs ==
  \/ RegRead(2)
  \/ \E w \in ScrollWrites : RegWrite(w[1], w[2])

SpecRegs == Init /\ [][NextRegs]_vars

----------------------------------------------------------------------------
(* Rendering: the program lets the PPU idle for whole scanlines, writes    *)
(* the ports once (at power-on or at the start of the pre-render scanline) *)
(* and then clock() runs dot by dot.                                       *)
(*   <<1, m>> PPUMASK; <<6, hi>>, <<6, lo>> set v = t; the PPUSCROLL pairs *)
(*   put fine-Y = 7 and a coarse-Y of 29, 31 or 5 into t, and the          *)
(*   PPUSCROLL / PPUADDR pair after them copies t to v.                    *)

ScanClocks == 600
ScanSetups ==
  { << <<1, 8>>, <<6, 3>>, <<6, 160>> >>,
    << <<1, 8>>, <<5, 0>>, <<5, 239>>, <<5, 0>>, <<6, 160>> >>,
    << <<1, 8>>, <<5, 0>>, <<5, 255>>, <<5, 0>>, <<6, 224>> >>,
    << <<1, 8>>, <<5, 0>>, <<5, 47>>, <<5, 0>>, <<6, 160>> >>,
    << <<1, 8>>, <<0, 3>>, <<5, 125>>, <<5, 94>> >>,
    << <<1, 24>>, <<6, 35>>, <<6, 191>> >>,
    << <<5, 0>>, <<5, 239>>, <<5, 0>>, <<6, 160>> >> }

ScanLine == n.ports = 0 /\ ClockLine

ScanSetup(setup) ==
  /\ Running
  /\ n.ports = 0
  /\ ppu.pixel_cycle = 0
  /\ ppu.scanline \in {0, 261}
  /\ \E st \in {run_setup([mb |-> MB, trk |-> n.trk], setup)} :
       /\ Commit(st.mb)
       /\ last' = [Hist("setup", setup, 0, st.mb) EXCEPT !.pre_ppu = ppu]
       /\ n' = [n EXCEPT !.ports = Len(setup), !.budget = ScanClocks, !.trk = st.trk]
  /\ UNCHANGED oc

ScanClock == n.ports > 0 /\ Clock

NextScan ==
  \/ ScanLine
  \/ \E setup \in ScanSetups : ScanSetup(setup)
  \/ ScanClock

SpecScan == Init /\ [][NextScan]_vars

----------------------------------------------------------------------------
(* Sprite evaluation: the program fills the end of OAM through OAMADDR and *)
(* OAMDATA before the scanline is clocked.  SpriteWrites(start, ys) gives  *)
(* sprite start + i the Y coordinate ys[i + 1] and the tile number         *)
(* start + i, and leaves OAMADDR at sprite start.                          *)

SpriteWrites(start, ys) ==
  [j \in 1..(4 * Len(ys) + 1) |->
     IF j = 4 * Len(ys) + 1 THEN <<3, 4 * start>>
     ELSE LET sprite == start + (j - 1) \div 4
              step == (j - 1) % 4
          IN CASE step = 0 -> <<3, 4 * sprite>>
               [] step = 1 -> <<4, ys[(j - 1) \div 4 + 1]>>
               [] step = 2 -> <<3, 4 * sprite + 1>>
               [] OTHER -> <<4, sprite>>]

SpriteSetups ==
  { SpriteWrites(54, <<0, 0, 0, 0, 0, 0, 0, 0, 0, 0>>),
    SpriteWrites(54, <<0, 0, 0, 100, 0, 0, 0, 0, 0, 0>>),
    SpriteWrites(54, <<0, 100, 0, 0, 0, 0, 100, 0, 0, 0>>),
    SpriteWrites(54, <<100, 0, 0, 0, 100, 0, 0, 0, 100, 0>>),
    SpriteWrites(58, <<0, 100, 0, 100, 0, 0>>),
    SpriteWrites(54, <<255, 255, 255, 255, 255, 255, 255, 255, 255, 255>>),
    SpriteWrites(54, <<255, 255, 255, 100, 255, 255, 255, 255, 255, 255>>),
    SpriteWrites(54, <<255, 100, 255, 255, 255, 255, 100, 255, 255, 255>>),
    SpriteWrites(54, <<100, 255, 255, 255, 100, 255, 255, 255, 100, 255>>),
    SpriteWrites(58, <<255, 100, 255, 100, 255, 255>>) }

NextSprite ==
  \/ ScanLine
  \/ \E setup \in SpriteSetups : ScanSetup(setup)
  \/ ScanClock

SpecSprite == Init /\ [][NextSprite]_vars

----------------------------------------------------------------------------
(* Pixel output: the program stores a byte in palette entry $3F00 through  *)
(* PPUADDR and PPUDATA, or gives sprite 60 the tile 5, leaves OAMADDR at   *)
(* sprite 60 and enables the sprites (PPUMASK $10) or sprites and          *)
(* background ($18); then the scanline is clocked.                         *)

PixelSetups ==
  { << <<6, 63>>, <<6, 0>>, <<7, 128>> >>,
    << <<6, 63>>, <<6, 0>>, <<7, 63>> >>,
    << <<6, 63>>, <<6, 0>>, <<7, 63>>, <<6, 0>>, <<6, 0>>, <<1, 8>> >>,
    << <<3, 241>>, <<4, 5>>, <<3, 240>>, <<1, 16>> >>,
    << <<3, 241>>, <<4, 5>>, <<3, 240>>, <<1, 24>> >>,
    << <<3, 240>>, <<1, 24>> >> }

NextPixel ==
  \/ ScanLine
  \/ \E setup \in PixelSetups : ScanSetup(setup)
  \/ ScanClock

SpecPixel == Init /\ [][NextPixel]_vars

----------------------------------------------------------------------------
(* The arithmetic instructions: exec() run on a two-instruction program    *)
(* that sits at $0000 of the RAM, ADC #m and SBC #m in either order, from  *)
(* an accumulator, an operand and a carry of the sets above.               *)

AluProgram(prog, m) == (0 :> prog[1]) @@ (1 :> m) @@ (2 :> prog[2]) @@ (3 :> m)

InitAlu ==
  \E profile \in BOOLEAN, a \in AluAcc, m \in AluOperands, c \in {0, 1},
     prog \in AluPrograms :
    LET mb == PowerOn(profile) IN
    /\ cpu = [mb.cpu EXCEPT !.acc = a, !.status = Or(And(@, Not8(CARRY)), c), !.pc = 0]
    /\ ppu = mb.ppu /\ palette = mb.palette /\ ram = AluProgram(prog, m)
    /\ cart = mb.cart /\ last_bus_value = mb.last_bus_value /\ cycles = mb.cycles
    /\ is_cpu_idle = mb.is_cpu_idle /\ panic = mb.panic /\ oc = profile
    /\ last = NoOp
    /\ n = [NoCounts EXCEPT !.budget = MaxClocks,
                            !.mapped_read = mb.last_bus_value,
                            !.bus_value = mb.last_bus_value]

NextAlu == Exec

SpecAlu == InitAlu /\ [][NextAlu]_vars

----------------------------------------------------------------------------
(* Programs in the RAM: the CPU part of Nes::tick, slot after slot, on a   *)
(* few bytes of code that sit at `base` with the data they use.            *)

Prog(base, code, data, p) == [base |-> base, code |-> code, data |-> data, p |-> p]

(* every opcode byte, with an operand in the RAM and one in the cartridge  *)
(* window below $8000                                                      *)
OpcodeOperands == { <<16, 0>>, <<0, 80>> }
OpcodePrograms ==
  { Prog(0, <<b, o[1], o[2]>>, (16 :> 3) @@ (17 :> 2), 36) :
      b \in 0..255, o \in OpcodeOperands }

(* JMP ($02FF) and JMP ($0210), the pointer bytes and the byte at $0300 *)
JumpPrograms ==
  { Prog(0, <<108, 255, 2>>, (767 :> 52) @@ (512 :> 18) @@ (768 :> 86), 36),
    Prog(0, <<108, 16, 2>>, (528 :> 52) @@ (529 :> 18), 36) }

(* the eight branches, forwards and backwards, from $0000 and from $00F0,  *)
(* with the flags N, V, Z, C all clear and all set                         *)
BranchOpcodes == {16, 48, 80, 112, 144, 176, 208, 240}
BranchOffsets == {32, 251}
BranchBases == {0, 240}
BranchFlags == {36, 231}
BranchPrograms ==
  { Prog(ba, <<b, off>>, EmptyMem, p) :
      b \in BranchOpcodes, off \in BranchOffsets, ba \in BranchBases, p \in BranchFlags }

Programs == OpcodePrograms \cup JumpPrograms \cup BranchPrograms

ProgRam(prog) ==
  [a \in (prog.base .. prog.base + Len(prog.code) - 1) \cup DOMAIN prog.data |->
     IF a \in DOMAIN prog.data THEN prog.data[a] ELSE prog.code[a - prog.base + 1]]

InitProg ==
  \E profile \in BOOLEAN, prog \in Programs :
    LET mb == PowerOn(profile) IN
    /\ cpu = [mb.cpu EXCEPT !.status = prog.p, !.pc = prog.base]
    /\ ppu = mb.ppu /\ palette = mb.palette /\ ram = ProgRam(prog)
    /\ cart = mb.cart /\ last_bus_value = mb.last_bus_value /\ cycles = mb.cycles
    /\ is_cpu_idle = mb.is_cpu_idle /\ panic = mb.panic /\ oc = profile
    /\ last = NoOp
    /\ n = [NoCounts EXCEPT !.budget = MaxClocks,
                            !.mapped_read = mb.last_bus_value,
                            !.bus_value = mb.last_bus_value]

(* a CPU slot; n.instr_cpu keeps the registers the instruction in progress *)
(* started from                                                            *)
SlotStep ==
  /\ Running
  /\ \E r \in {cpu_on_slot(MB)} :
     /\ Commit(r)
     /\ last' = [Hist("slot", 0, 0, r)
                   EXCEPT !.pre_cpu = cpu, !.pre_idle = is_cpu_idle, !.pre_ram = ram,
                          !.irq = after_interrupt(run_interrupt(MB))]
     /\ n' = [n EXCEPT !.slots = @ + 1,
                       !.instr_cpu = IF is_cpu_idle THEN cpu ELSE @]
  /\ UNCHANGED oc

Slot == n.slots < MaxSlots /\ SlotStep

NextProg == Slot

SpecProg == InitProg /\ [][NextProg]_vars

(* The CPU slots of Nes::tick with cpu::trigger_nmi called between them: a *)
(* trigger_nmi followed by a slot is the tick that forwards the NMI and    *)
(* then steps the CPU.                                                     *)
NextIntr ==
  \/ Slot
  \/ TriggerNmi

SpecIntr == InitCpu /\ [][NextIntr]_vars

----------------------------------------------------------------------------
(* Indexed operands: one instruction at $0000 run to its end, with X and Y *)
(* set.  The reads are ORA, AND, EOR, ADC, LDA, CMP and SBC through        *)
(* (zp),Y, abs,Y and abs,X, LDY abs,X and LDX abs,Y; the stores are STA    *)
(* through the same three modes.  The base address is $0210 or $02F0, for  *)
(* (zp),Y held in the pointer at $10.                                      *)

MaxTimingSlots == 8

IndYReads == {17, 49, 81, 113, 177, 209, 241}
AbsYReads == {25, 57, 89, 121, 185, 217, 249, 190}
AbsXReads == {29, 61, 93, 125, 189, 221, 253, 188}
IndexedStores == {145, 153, 157}
IndexedOpcodes == IndYReads \cup AbsYReads \cup AbsXReads \cup IndexedStores
BaseLows == {16, 240}
IndexInputs == {0, 15, 16, 255}

TimingPrograms ==
  { IF b \in IndYReads \cup {145}
    THEN Prog(0, <<b, 16>>, (16 :> lo) @@ (17 :> 2), 36)
    ELSE Prog(0, <<b, lo, 2>>, EmptyMem, 36) :
      b \in IndexedOpcodes, lo \in BaseLows }

InitTiming ==
  \E profile \in BOOLEAN, prog \in TimingPrograms, x \in IndexInputs, y \in IndexInputs :
    LET mb == PowerOn(profile) IN
    /\ cpu = [mb.cpu EXCEPT !.status = prog.p, !.pc = prog.base, !.x = x, !.y = y]
    /\ ppu = mb.ppu /\ palette = mb.palette /\ ram = ProgRam(prog)
    /\ cart = mb.cart /\ last_bus_value = mb.last_bus_value /\ cycles = mb.cycles
    /\ is_cpu_idle = mb.is_cpu_idle /\ panic = mb.panic /\ oc = profile
    /\ last = NoOp
    /\ n = [NoCounts EXCEPT !.budget = MaxClocks,
                            !.mapped_read = mb.last_bus_value,
                            !.bus_value = mb.last_bus_value]

TimingSlot == n.slots < MaxTimingSlots /\ SlotStep

NextTiming == TimingSlot

SpecTiming == InitTiming /\ [][NextTiming]_vars

(* Instruction lengths: every opcode byte at $0000 as in SpecProg, and the *)
(* byte the cartridge holds at $FFFF (the high byte of the IRQ vector)     *)
(* executed with its operand at $0000.                                     *)

InitWrap ==
  \E profile \in BOOLEAN, prog \in JumpPrograms :
    LET mb == PowerOn(profile) IN
    /\ cpu = [mb.cpu EXCEPT !.status = prog.p, !.pc = 65535]
    /\ ppu = mb.ppu /\ palette = mb.palette /\ ram = ProgRam(prog)
    /\ cart = mb.cart /\ last_bus_value = mb.last_bus_value /\ cycles = mb.cycles
    /\ is_cpu_idle = mb.is_cpu_idle /\ panic = mb.panic /\ oc = profile
    /\ last = NoOp
    /\ n = [NoCounts EXCEPT !.budget = MaxClocks,
                            !.mapped_read = mb.last_bus_value,
                            !.bus_value = mb.last_bus_value]

InitLength == InitProg \/ InitWrap

NextLength == Slot

SpecLength == InitLength /\ [][NextLength]_vars

----------------------------------------------------------------------------
(* Loading: devices/cartridge/ines.rs, cartridge/mod.rs, cartridge/nrom.rs *)
(* and Nes::new_from_buf.  A buffer is kept as what the loader looks at:   *)
(* its length, bytes 0-3 (magic), and bytes 4 to 7 of the header.  n.built *)
(* says whether an emulator has been constructed.                          *)

INES_MAGIC == <<78, 69, 83, 26>>
HEADER_LEN == 16
PRG_CHUNK == 16384
CHR_CHUNK == 8192

Buffer(magic, prg, chr, f6, f7, len) ==
  [magic |-> magic, prg |-> prg, chr |-> chr, flags_6 |-> f6, flags_7 |-> f7, len |-> len]

(* fn parse_ines_header: mb.ret is the INesHeader.  bytes[4] to bytes[10]   *)
(* are checked indexings.                                                  *)
parse_ines_header(mb, buf) ==
  IF buf.len < 11 THEN Panic(mb, "index out of bounds")
  ELSE Ret(mb, [prg_size |-> IF buf.prg = 0 THEN 1 ELSE buf.prg,
                chr_size |-> IF buf.chr = 0 THEN 1 ELSE buf.chr,
                flags_6 |-> buf.flags_6, flags_7 |-> buf.flags_7])

(* NROMCartridge::new: the two slices of buf are checked *)
prg_end(header) == HEADER_LEN + PRG_CHUNK * header.prg_size
nrom_new(mb, header, buf) ==
  IF prg_end(header) > buf.len \/ prg_end(header) + CHR_CHUNK > buf.len
  THEN Panic(mb, "range end index out of range for slice")
  ELSE [mb EXCEPT !.cart = [nametable |-> EmptyMem,
                            use_horizontal_mirroring |-> And(header.flags_6, 1) = 0,
                            is_16k |-> header.prg_size = 1]]

(* fn from_rom *)
mapper_of(header) == Or(And(header.flags_6, 240), Shr(And(header.flags_7, 240), 4))
select_mapper(r, buf) ==
  IF mapper_of(r.ret) = 0 THEN nrom_new(r, r.ret, buf)
  ELSE Panic(r, "not implemented: Mapper not implemented")
from_rom(mb, buf) ==
  LET r == parse_ines_header(mb, buf)
  IN IF r.panic # NoPanic THEN r ELSE select_mapper(r, buf)

(* Nes::new_from_buf *)
new_from_buf(mb, buf) == Then(from_rom(mb, buf), NesNew)

Magics == { INES_MAGIC, <<78, 69, 83, 0>> }
PrgSizes == {0, 1, 2}
ChrSizes == {1, 2}
Flags6 == {0, 1, 16}
Flags7 == {0, 16}
BufferLens == {3, 16, 16400, 24592, 32784, 40976, 49168}
Buffers ==
  { Buffer(m, p, c, f6, f7, len) :
      m \in Magics, p \in PrgSizes, c \in ChrSizes, f6 \in Flags6, f7 \in Flags7,
      len \in BufferLens }

BeforeNew(profile) ==
  [cpu |-> POWERON_CPU_STATE, ppu |-> PPU_POWERON_STATE,
   palette |-> [i \in 0..31 |-> 0], ram |-> EmptyMem, cart |-> NewCart,
   last_bus_value |-> 0, cycles |-> 0, is_cpu_idle |-> TRUE,
   panic |-> NoPanic, oc |-> profile, ret |-> 0, log |-> <<>>]

InitLoad ==
  \E profile \in BOOLEAN, buf \in Buffers :
    LET m == BeforeNew(profile) IN
    /\ cpu = m.cpu /\ ppu = m.ppu /\ palette = m.palette /\ ram = m.ram
    /\ cart = m.cart /\ last_bus_value = m.last_bus_value /\ cycles = m.cycles
    /\ is_cpu_idle = m.is_cpu_idle /\ panic = m.panic /\ oc = profile
    /\ last = [NoOp EXCEPT !.op = "buffer", !.a1 = buf]
    /\ n = [NoCounts EXCEPT !.built = FALSE]

NewFromBuf ==
  /\ Running /\ ~n.built
  /\ \E r \in {new_from_buf(MB, last.a1)} :
       /\ Commit(r)
       /\ last' = Hist("new_from_buf", last.a1, 0, r)
       /\ n' = [n EXCEPT !.built = r.panic = NoPanic]
  /\ UNCHANGED oc

NextLoad == NewFromBuf
SpecLoad == InitLoad /\ [][NextLoad]_vars

----------------------------------------------------------------------------
(* The palette RAM as a bus device: reads and writes of PpuPaletteRam at   *)
(* offsets 0 to 31                                                         *)

MaxPalOps == 3
PaletteOffsets == {0, 1, 4, 8, 12, 15, 16, 17, 20, 24, 28, 31}
PaletteData == {21, 42}

PaletteRead(addr) ==
  /\ Running /\ n.pal < MaxPalOps
  /\ last' = [Hist("palette_read", addr, 0, Ret(MB, palette_read(palette, addr, last_bus_value)))
                EXCEPT !.pre_palette = palette]
  /\ n' = [n EXCEPT !.pal = @ + 1]
  /\ UNCHANGED <<nes_vars, panic, oc>>

PaletteWrite(addr, data) ==
  /\ Running /\ n.pal < MaxPalOps
  /\ palette' = palette_write(palette, addr, data)
  /\ last' = [Hist("palette_write", addr, data, MB) EXCEPT !.pre_palette = palette]
  /\ n' = [n EXCEPT !.pal = @ + 1]
  /\ UNCHANGED <<cpu, ppu, ram, cart, last_bus_value, cycles, is_cpu_idle, panic, oc>>

NextPalette ==
  \/ \E addr \in PaletteOffsets : PaletteRead(addr)
  \/ \E addr \in PaletteOffsets, data \in PaletteData : PaletteWrite(addr, data)
SpecPalette == Init /\ [][NextPalette]_vars

----------------------------------------------------------------------------
(* Properties of the PPU, checked under SpecPpu *)

RasterNext(sl, pc) ==
  IF pc = 340 THEN <<IF sl = 261 THEN 0 ELSE sl + 1, 0>> ELSE <<sl, pc + 1>>

C7_RasterOrder ==
  [][/\ ppu.pixel_cycle \in 0..340 /\ ppu.scanline \in 0..261
     /\ ppu'.pixel_cycle \in 0..340 /\ ppu'.scanline \in 0..261
     /\ (panic' = NoPanic /\ last'.op = "clock")
          => <<ppu'.scanline, ppu'.pixel_cycle>> = RasterNext(ppu.scanline, ppu.pixel_cycle)
     /\ (panic' = NoPanic /\ last'.op = "clock_line")
          => <<ppu'.scanline, ppu'.pixel_cycle>> = <<RasterNext(ppu.scanline, 340)[1], 0>>
     /\ last'.op \in {"control_port_read", "control_port_write"}
          => <<ppu'.scanline, ppu'.pixel_cycle>> = <<ppu.scanline, ppu.pixel_cycle>>]_vars

(* a clock() has taken the PPU from the last dot of scanline 261 to dot 0 of scanline 0 *)
C7_FrameWrap ==
  /\ Running /\ last.op = "clock"
  /\ last.pre_scanline = 261 /\ last.pre_dot = 340
  /\ ppu.scanline = 0 /\ ppu.pixel_cycle = 0

(* C8: in every state reached by clock() calls and port accesses, rendering *)
(* enabled or not, the VRAM address v is in 0..$7FFF.                       *)
C8_VWithin15Bits == Running => ppu.v \in 0..32767

(* C10: a PPUDATA read made while v is below $3F00 returns what the read    *)
(* buffer held before the read, and leaves in the buffer the byte stored at *)
(* the address v had before the read.                                       *)
C10_BufferedRead ==
  (Running /\ last.op = "control_port_read" /\ last.a1 = 7 /\ last.pre_v < 16128)
    => /\ last.ret = last.pre_buffer
       /\ ppu.ppudata_buffer = peek_chr(cart, last.pre_v).val

(* the second of two PPUDATA reads: v was 1, the read returned the byte of  *)
(* address 0 that the first read had fetched, not the byte of address 1     *)
C10_SecondRead ==
  /\ Running /\ last.op = "control_port_read" /\ last.a1 = 7
  /\ last.pre_v = 1 /\ last.ret = ChrByte(0) /\ ChrByte(0) # ChrByte(1)
  /\ ppu.ppudata_buffer = ChrByte(1)

----------------------------------------------------------------------------
(* Properties of the motherboard, checked under SpecNes *)

(* the CPU calls of a tick whose counter, once incremented, is c *)
CpuPart(c, idle) ==
  IF c % 3 # 0 THEN <<>>
  ELSE IF idle THEN <<"cpu_exec", "cpu_tick">> ELSE <<"cpu_tick">>

(* C1: every Nes::tick clocks the PPU exactly once and first, then forwards *)
(* a pending vblank NMI, and steps the CPU (exec first when it is idle,     *)
(* then tick) last, on exactly the calls whose incremented master counter   *)
(* is a multiple of 3.                                                      *)
C1_TickOrder ==
  (Running /\ last.op = "tick")
    => \E nmi \in {<<>>, <<"trigger_nmi", "ack_vblank">>} :
         last.log = <<"ppu_clock">> \o nmi \o CpuPart(cycles, last.pre_idle)

(* the sixth tick: the PPU clock, then the CPU tick of a busy CPU *)
C1_SixthTick ==
  /\ Running /\ last.op = "tick" /\ cycles = 6 /\ ~last.pre_idle
  /\ last.log = <<"ppu_clock", "cpu_tick">>

(* C3: driven by Nes::tick alone, every CPU slot (every third tick) adds    *)
(* exactly 1 to tot_cycles, so that an instruction of n cycles takes n      *)
(* slots.                                                                   *)
C3_CycleEverySlot ==
  (Running /\ last.op = "tick" /\ cycles % 3 = 0)
    => cpu.tot_cycles = last.pre_cpu.tot_cycles + 1

(* C4: every tick_frame() call, also one made right after another returned, *)
(* runs at least one tick, and from a frame boundary exactly the 89342      *)
(* ticks of one frame.                                                      *)
C4_FrameCallRunsAFrame ==
  (Running /\ last.op = "tick_frame")
    => /\ last.ret >= 1
       /\ n.ticks = 0 => last.ret = 89342

(* C5: with PPUCTRL bit 7 set, the tick in which the PPU enters vblank      *)
(* raises the CPU's pending interrupt as an NMI and acknowledges the PPU's  *)
(* flag, and emulation goes on; with bit 7 clear no interrupt is raised.    *)
C5_NmiForwarded ==
  /\ panic # "panik"
  /\ (Running /\ last.op = "tick" /\ Len(last.log) > 1 /\ last.log[2] = "trigger_nmi")
       => (cpu.interrupt_pending /\ ~cpu.maskable_interrupt /\ ~ppu.vblank_nmi_ready)
  /\ (Running /\ And(ppu.control, VBLANK_NMI_ENABLE) = 0) => ~cpu.interrupt_pending

----------------------------------------------------------------------------
(* Properties of the CPU, checked under SpecCpu *)

(* the little-endian word the PRG image shows at a vector *)
VectorWord(vector) == PrgByte(vector % 16384) + 256 * PrgByte((vector + 1) % 16384)

(* the stack page byte k pushes below the stack pointer s *)
Pushed(s, k) == Get(ram, 256 + ((s + 256 - k) % 256))

(* an exec that found an interrupt pending, and an exec of BRK *)
ServicedInterrupt == Running /\ last.op = "exec" /\ last.pre_cpu.interrupt_pending
ExecutedBrk ==
  /\ Running /\ last.op = "exec" /\ ~last.pre_cpu.interrupt_pending
  /\ PrgByte(last.pre_cpu.pc % 16384) = 0

(* C6: servicing a pending NMI or IRQ pushes PC high, PC low and P with B   *)
(* clear and U set, leaves S lower by 3, sets I, clears the pending flag    *)
(* and loads PC from $FFFA (NMI) or $FFFE (IRQ); BRK does the same with B   *)
(* set in the pushed P and the $FFFE vector.                                *)
C6_InterruptSequence ==
  /\ ServicedInterrupt =>
       /\ Pushed(last.pre_cpu.stack, 0) = last.pre_cpu.pc \div 256
       /\ Pushed(last.pre_cpu.stack, 1) = last.pre_cpu.pc % 256
       /\ And(Pushed(last.pre_cpu.stack, 2), BREAK + UNUSED) = UNUSED
       /\ last.irq.stack = (last.pre_cpu.stack + 253) % 256
       /\ And(last.irq.status, IRQ_DISABLE) = IRQ_DISABLE
       /\ ~last.irq.interrupt_pending
       /\ last.irq.pc = VectorWord(IF last.pre_cpu.maskable_interrupt
                                  THEN IRQ_VECTOR ELSE NMI_VECTOR)
  /\ ExecutedBrk =>
       /\ And(Pushed(last.pre_cpu.stack, 2), BREAK + UNUSED) = BREAK + UNUSED
       /\ cpu.stack = (last.pre_cpu.stack + 253) % 256
       /\ And(cpu.status, IRQ_DISABLE) = IRQ_DISABLE
       /\ cpu.pc = VectorWord(IRQ_VECTOR)

----------------------------------------------------------------------------
(* Properties of the CPU bus, checked under SpecBus *)

(* C9 as stated: the open-bus latch holds the byte of the most recent read  *)
(* of a mapped address, an unmapped read returns it, and nothing but a      *)
(* mapped read changes it.                                                  *)
C9_LatchIsLastMappedRead ==
  Running =>
    /\ last_bus_value = n.mapped_read
    /\ (last.op = "read" /\ ~IsMappedRead(last.a1)) => last.ret = n.mapped_read

(* C9, amended: the latch holds the byte most recently returned by a read   *)
(* of a mapped address or carried by a write of any address; an unmapped    *)
(* read returns it and leaves it unchanged.                                 *)
C9_LatchIsLastBusByte ==
  Running =>
    /\ last_bus_value = n.bus_value
    /\ (last.op = "read" /\ ~IsMappedRead(last.a1))
         => (last.ret = n.bus_value /\ last_bus_value = last.pre_latch)

(* an unmapped read has returned a byte that a write put on the bus *)
C9_ReadAfterWrite ==
  /\ Running /\ last.op = "read" /\ ~IsMappedRead(last.a1)
  /\ last.ret \in BusData /\ last.ret # n.mapped_read

----------------------------------------------------------------------------
(* Properties of the PPU ports, checked under SpecPort *)

(* the latest operation was a read, or a write, of the port *)
ReadOf(port_addr) ==
  Running /\ last.op = "control_port_read" /\ last.a1 = port_addr
WriteOf(port_addr) ==
  Running /\ last.op = "control_port_write" /\ last.a1 = port_addr

(* the palette entry the PPU bus shows at a palette address *)
PaletteAt(addr) == unwrap(palette_peek(palette, And(addr - PPU_PALETTE_START_ADDR, 31)), 0)

(* C11: a PPUDATA read with v in $3F00-$3FFF returns the palette entry at v *)
(* itself, not the delayed buffer, and refills the buffer from the byte at  *)
(* v & $0FFF; after $3F was written to $3F10, the read at $3F00 and at      *)
(* $3F10 returns $3F.                                                       *)
C11_PaletteReadDirect ==
  (ReadOf(7) /\ last.pre_ppu.v \in 16128..16383)
    => /\ last.ret = PaletteAt(last.pre_ppu.v)
       /\ ppu.ppudata_buffer = unwrap(peek_chr(cart, And(last.pre_ppu.v, 4095)), 0)

(* C12: with w clear, writing hi and then lo to PPUADDR sets                *)
(* v = ((hi & $3F) << 8) | lo and leaves w clear; outside rendering every   *)
(* later PPUDATA read or write uses the address the one before it used      *)
(* plus the PPUCTRL increment (1 or 32), modulo $8000.                      *)
C12_AddressSequence ==
  /\ (WriteOf(6) /\ last.pre_ppu.w /\ last.pre_trk.hi >= 0)
       => (ppu.v = (last.pre_trk.hi % 64) * 256 + last.a2 /\ ~ppu.w)
  /\ ((ReadOf(7) \/ WriteOf(7)) /\ last.pre_trk.expect >= 0
        /\ And(last.pre_ppu.mask, BG_ENABLE + SPRITE_ENABLE) = 0)
       => last.pre_ppu.v = last.pre_trk.expect

(* the second PPUDATA read after PPUADDR = $3F10 with the increment of 32 *)
(* a PPUDATA write at $7FFF with the increment of 32 leaves v = $001F *)
C12_WrapsAt8000 ==
  /\ WriteOf(7) /\ last.pre_trk.expect = 32767 /\ last.pre_ppu.v = 32767 /\ ppu.v = 31

C12_SecondAccessBy32 ==
  /\ ReadOf(7) /\ last.pre_trk.ctrl = 4
  /\ last.pre_trk.expect = 16176 /\ last.pre_ppu.v = 16176 /\ ppu.v = 16208

(* the state a PPUSTATUS read leaves: vblank clear, w clear, sprite-0-hit   *)
(* and sprite-overflow as before                                            *)
AfterStatusRead ==
  /\ And(ppu.status, VBLANK) = 0
  /\ ~ppu.w
  /\ And(ppu.status, SPRITE_0_HIT + SPRITE_OVERFLOW)
       = And(last.pre_ppu.status, SPRITE_0_HIT + SPRITE_OVERFLOW)

(* C13, as stated: a PPUSTATUS read returns bits 7-5 of the status flags    *)
(* and bits 4-0 of the last value written to a PPU port; afterwards vblank  *)
(* and w are clear and sprite-0-hit and sprite-overflow are unchanged.      *)
C13_StatusLowBitsLastWritten ==
  ReadOf(2) =>
    /\ last.ret = And(last.pre_ppu.status, 224) + And(last.pre_trk.written, 31)
    /\ AfterStatusRead

(* C13, amended: bits 4-0 are those of the last byte that crossed a PPU     *)
(* port, written to any port or returned by a PPUDATA or PPUSTATUS read.    *)
C13_StatusLowBitsLatch ==
  ReadOf(2) =>
    /\ last.ret = And(last.pre_ppu.status, 224) + And(last.pre_trk.latch, 31)
    /\ AfterStatusRead

(* a PPUSTATUS read in vblank with w set, after a PPUDATA read whose byte   *)
(* differs in bits 4-0 from the last byte written                           *)
C13_StatusAfterDataRead ==
  /\ ReadOf(2)
  /\ And(last.pre_ppu.status, VBLANK) # 0
  /\ last.pre_ppu.w
  /\ And(last.pre_trk.latch, 31) # And(last.pre_trk.written, 31)
(* C14: an OAMDATA write stores the byte at OAM[OAMADDR] and then adds 1 to *)
(* OAMADDR modulo 256; an OAMDATA read returns OAM[OAMADDR] and leaves      *)
(* OAMADDR unchanged.                                                       *)
C14_OamDataPort ==
  /\ WriteOf(4) =>
       /\ ppu.oam[last.pre_ppu.oam_addr] = last.a2
       /\ ppu.oam_addr = (last.pre_ppu.oam_addr + 1) % 256
  /\ ReadOf(4) =>
       /\ last.ret = last.pre_ppu.oam[last.pre_ppu.oam_addr]
       /\ ppu.oam_addr = last.pre_ppu.oam_addr
----------------------------------------------------------------------------
(* Properties of the CPU bus and the PPU, checked under SpecBus *)

BusReadOf(addrs) == Running /\ last.op = "read" /\ last.a1 \in addrs
BusWriteOf(addrs) == Running /\ last.op = "write" /\ last.a1 \in addrs

(* the byte the CPU bus holds at addr *)
BusByte(addr) == nes_read(MB, addr).ret

(* C15: a CPU write of N to $4014 copies the 256 bytes at $NN00-$NNFF into  *)
(* OAM starting at OAMADDR, and the CPU is stalled for 513 or 514 cycles.   *)
C15_OamDma ==
  BusWriteOf({OAMDMA}) =>
    /\ \A i \in 0..255 :
         ppu.oam[(last.pre_ppu.oam_addr + i) % 256] = BusByte(last.a2 * 256 + i)
    /\ cpu.cycles - last.pre_cpu.cycles \in {513, 514}
(* the machine before the last bus operation, as far as the PPU ports see it *)
BeforeBusOp == [MB EXCEPT !.ppu = last.pre_ppu]

(* C16: a CPU-bus access to an address a in $2000-$3FFF is an access to PPU *)
(* port a & 7: a read returns what control_port_read returns and leaves the *)
(* PPU as it leaves it, a write leaves the PPU as control_port_write does.  *)
C16_PpuPortsOnCpuBus ==
  /\ BusReadOf(8192..16383) =>
       /\ last.ret = control_port_read(BeforeBusOp, And(last.a1, 7)).ret
       /\ ppu = control_port_read(BeforeBusOp, And(last.a1, 7)).ppu
  /\ BusWriteOf(8192..16383) =>
       ppu = control_port_write(BeforeBusOp, And(last.a1, 7), last.a2).ppu

(* C17: a CPU read of $4020-$7FFF completes without fault and returns the   *)
(* open-bus latch; a read of $8000-$FFFF returns the PRG byte, a 16 KiB     *)
(* image showing at $8000-$BFFF and again at $C000-$FFFF.                   *)
C17_CartridgeWindow ==
  /\ (last.op = "read" /\ last.a1 \in 16416..32767) =>
       (panic = NoPanic /\ last.ret = last.pre_latch)
  /\ BusReadOf(32768..65535) =>
       last.ret = PrgByte(IF cart.is_16k THEN last.a1 % 16384 ELSE last.a1 - 32768)
----------------------------------------------------------------------------
(* Properties of reset and of the stack, checked under SpecCpu *)

(* the status flags other than I *)
OtherFlags(p) == And(p, 255 - IRQ_DISABLE)

(* C18: reset() sets PC to the word at $FFFC/$FFFD, sets I, replaces S by   *)
(* (S - 3) mod 256 whatever S is, leaves A, X, Y, the other flags, the RAM  *)
(* and the PPU unchanged, and never faults, however often it is called.     *)
C18_Reset ==
  last.op = "reset" =>
    /\ panic = NoPanic
    /\ cpu.pc = VectorWord(RESET_VECTOR)
    /\ And(cpu.status, IRQ_DISABLE) # 0
    /\ cpu.stack = (last.pre_cpu.stack + 253) % 256
    /\ cpu.acc = last.pre_cpu.acc /\ cpu.x = last.pre_cpu.x /\ cpu.y = last.pre_cpu.y
    /\ OtherFlags(cpu.status) = OtherFlags(last.pre_cpu.status)
    /\ ram = last.pre_ram /\ ppu = last.pre_ppu
(* the last operation was an exec() that ran the instruction instr *)
Executed(instr) == Running /\ last.op = "exec" /\ cpu.instr = instr

(* C19: a push writes the byte at $0100 + S and then takes 1 from S modulo  *)
(* 256; a pop adds 1 to S modulo 256 and then reads $0100 + S; PHA followed *)
(* by PLA leaves A and S as they were.  last.irq holds the registers the    *)
(* instruction started from.                                                *)
C19_PushPop ==
  /\ [](Executed("PHA") =>
          /\ Get(ram, 256 + last.irq.stack) = last.irq.acc
          /\ cpu.stack = (last.irq.stack + 255) % 256)
  /\ [](Executed("PLA") =>
          /\ cpu.stack = (last.irq.stack + 1) % 256
          /\ cpu.acc = Get(ram, 256 + cpu.stack))
  /\ [][(Executed("PHA") /\ Executed("PLA")')
          => (cpu'.acc = last.irq.acc /\ cpu'.stack = last.irq.stack)]_vars

(* PLA has popped $A5 from $0100, pushed there by PHA with S = $00 *)
C19_RoundTripAtWrap ==
  /\ Executed("PLA")
  /\ last.irq.stack = 255 /\ cpu.stack = 0 /\ cpu.acc = 165
----------------------------------------------------------------------------
(* Properties of ADC and SBC, checked under SpecAlu *)

Flag(p, f) == IF And(p, f) # 0 THEN 1 ELSE 0
SignBit(b) == b \div 128

(* what ADC of M with carry c leaves in A and in the flags C, V, Z, N *)
AdcLeaves(A, M, c) ==
  /\ cpu.acc = (A + M + c) % 256
  /\ Flag(cpu.status, CARRY) = (A + M + c) \div 256
  /\ (Flag(cpu.status, OVERFLOW) = 1)
       <=> (SignBit(A) = SignBit(M) /\ SignBit(cpu.acc) # SignBit(A))
  /\ (Flag(cpu.status, ZERO) = 1) <=> (cpu.acc = 0)
  /\ Flag(cpu.status, NEGATIVE) = SignBit(cpu.acc)

(* C20: ADC gives A' = (A + M + c) mod 256, C the carry out of bit 7, V = 1 *)
(* exactly when A and M have the same sign and A' the other one, Z and N    *)
(* from A'; SBC of M is ADC of M xor $FF.  last.irq holds the registers the *)
(* instruction started from, the operand is the second byte fetched.        *)
C20_AdcSbc ==
  /\ Executed("ADC") =>
       AdcLeaves(last.irq.acc, ops(cpu.instruction, 1), Flag(last.irq.status, CARRY))
  /\ Executed("SBC") =>
       AdcLeaves(last.irq.acc, 255 - ops(cpu.instruction, 1), Flag(last.irq.status, CARRY))
----------------------------------------------------------------------------
(* Properties of the instruction decoder and of the jumps and branches,     *)
(* checked under SpecProg                                                   *)

AddressingModes ==
  {"Abs", "AbsInd", "AbsX", "AbsY", "Accum", "Imm", "Impl", "IndX", "IndY", "Rel",
   "ZP", "ZPX", "ZPY"}

Mnemonics ==
  {"ADC", "AND", "ASL", "BIT", "BPL", "BMI", "BVC", "BVS", "BCC", "BCS", "BNE", "BEQ",
   "BRK", "CMP", "CPX", "CPY", "DEC", "EOR", "CLC", "SEC", "CLI", "SEI", "CLV", "CLD",
   "SED", "INC", "JMP", "JSR", "LDA", "LDX", "LDY", "LSR", "NOP", "ORA", "TAX", "TXA",
   "DEX", "INX", "TAY", "TYA", "DEY", "INY", "ROL", "ROR", "RTI", "RTS", "SBC", "STA",
   "STX", "STY", "TXS", "TSX", "PHA", "PLA", "PHP", "PLP"}

(* the slot that has just run began with exec(), on the opcode byte Opcode *)
Fetched == last.op = "slot" /\ last.pre_idle
Opcode == Get(last.pre_ram, last.pre_cpu.pc)

(* C21: every opcode byte decodes to an (addressing mode, mnemonic) pair,   *)
(* $F2 to (Impl, NOP) and $FB to (AbsY, NOP), and exec() of any bytes runs  *)
(* to its end: the interpreter never halts on what it fetched.              *)
C21_DecodeTotal ==
  /\ \A b \in 0..255 :
       /\ decode_instruction(b)[1] \in AddressingModes
       /\ decode_instruction(b)[2] \in Mnemonics
  /\ decode_instruction(242) = <<"Impl", "NOP">>
  /\ decode_instruction(251) = <<"AbsY", "NOP">>
  /\ Fetched => panic = NoPanic

(* C22: JMP through an absolute-indirect pointer reads the low byte of the *)
(* target from the pointer `base` and the high byte from                   *)
(* (base & $FF00) | ((base + 1) & $FF): when the low byte of base is $FF   *)
(* the high byte comes from the start of the same page, not from the next  *)
(* page. The bytes are those the bus returns for the two addresses (the    *)
(* jump changes neither the RAM nor the cartridge).                        *)
JmpBase == bytes_to_addr(Get(last.pre_ram, U16(last.pre_cpu.pc + 1)),
                         Get(last.pre_ram, U16(last.pre_cpu.pc + 2)))
JmpHighAddr == Or(And(JmpBase, 65280), And(JmpBase + 1, 255))
IndirectJump == Fetched /\ Opcode = 108 /\ panic = NoPanic
C22_IndirectJump ==
  IndirectJump =>
    cpu.pc = bytes_to_addr(bus_read(MB, JmpBase).ret, bus_read(MB, JmpHighAddr).ret)
C22_PointerAtPageEnd ==
  /\ IndirectJump
  /\ JmpBase = 767
  /\ cpu.pc = 4660
  /\ Get(ram, 768) = 86

(* C23: every conditional branch advances tot_cycles by 2 when it is not   *)
(* taken, by 3 when it is taken to the page of the address of the          *)
(* following instruction, and by 4 when it is taken to another page.       *)
(* n.instr_cpu is the CPU as the instruction was fetched; the CPU is idle  *)
(* again once the cycles of the instruction are consumed.                  *)
BranchOpcode == Get(ram, n.instr_cpu.pc)
BranchDone == n.slots > 0 /\ is_cpu_idle /\ panic = NoPanic /\ BranchOpcode \in BranchOpcodes
BranchFlag ==
  CASE BranchOpcode \in {16, 48} -> NEGATIVE
    [] BranchOpcode \in {80, 112} -> OVERFLOW
    [] BranchOpcode \in {144, 176} -> CARRY
    [] OTHER -> ZERO
BranchTaken ==
  (And(n.instr_cpu.status, BranchFlag) # 0) = (BranchOpcode \in {48, 112, 176, 240})
BranchNext == U16(n.instr_cpu.pc + 2)
BranchTarget == U16(BranchNext + sign_extend(Get(ram, U16(n.instr_cpu.pc + 1))))
BranchCycles ==
  CASE ~BranchTaken -> 2
    [] BranchTarget \div 256 = BranchNext \div 256 -> 3
    [] OTHER -> 4
C23_BranchCycles ==
  BranchDone => cpu.tot_cycles = n.instr_cpu.tot_cycles + BranchCycles

----------------------------------------------------------------------------
(* Properties of loading, checked under SpecLoad *)

(* the image the header describes is all there: the magic, a mapper-0      *)
(* header, and PRG and CHR data of the lengths bytes 4 and 5 declare       *)
MapperNumber(buf) == Or(Shr(And(buf.flags_6, 240), 4), And(buf.flags_7, 240))
DeclaredLen(buf) ==
  HEADER_LEN + PRG_CHUNK * (IF buf.prg = 0 THEN 1 ELSE buf.prg) + CHR_CHUNK * buf.chr
WellFormed(buf) ==
  /\ buf.len >= HEADER_LEN
  /\ buf.magic = INES_MAGIC
  /\ MapperNumber(buf) = 0
  /\ buf.len >= DeclaredLen(buf)
Loaded == last.op = "new_from_buf"

(* C24: constructing the emulator from a buffer with a wrong magic, with   *)
(* PRG or CHR data shorter than the header declares, or with a mapper      *)
(* other than 0 fails at load time and constructs nothing; an emulator is  *)
(* constructed only for well-formed mapper-0 images.                       *)
C24_MalformedRom ==
  Loaded => /\ n.built => WellFormed(last.a1)
            /\ ~WellFormed(last.a1) => panic # NoPanic

----------------------------------------------------------------------------
(* Properties of the palette RAM, checked under SpecPalette *)

PaletteAliases == {16, 20, 24, 28}
Entry(pal, a) == palette_read(pal, a, 0)
SameCell(a, b) ==
  \/ a = b
  \/ a \in PaletteAliases /\ b = a - 16
  \/ b \in PaletteAliases /\ a = b - 16

(* C25: after any sequence of palette writes, entry a of $10, $14, $18,    *)
(* $1C reads the same byte as entry a - $10; a write to either of the two  *)
(* changes both, and a write to any other entry changes that entry alone.  *)
C25_PaletteAliases ==
  /\ \A a \in PaletteAliases : Entry(palette, a) = Entry(palette, a - 16)
  /\ last.op = "palette_read" => last.ret = Entry(palette, last.a1)
  /\ last.op = "palette_write" =>
       \A e \in 0..31 :
         Entry(palette, e) = IF SameCell(e, last.a1) THEN last.a2
                             ELSE Entry(last.pre_palette, e)
C25_WriteThroughAlias ==
  /\ last.op = "palette_write" /\ last.a1 = 20 /\ last.a2 = 42
  /\ Entry(last.pre_palette, 4) = 21
  /\ Entry(palette, 4) = 42

----------------------------------------------------------------------------
(* Properties of the address decoding, checked under SpecBus *)

RamProbes == {0, 16, 17, 2047, 2048, 2064, 4112, 6160, 8191}
RamCell(addr) == addr % 2048

(* C26: an address inside a device's range [start, end] is delivered to    *)
(* the device as (addr - start) & mask and selects no device outside its   *)
(* range; a byte written to the RAM window $0000-$1FFF is read back from   *)
(* that address and from every mirror of it (the addresses with the same   *)
(* addr & $07FF), and from no other RAM cell.                              *)
C26_Decoding ==
  /\ last.op \in {"read", "write"} =>
       /\ cpu_match_addr(last.a1).device = "RAM" =>
            last.a1 \in 0..8191 /\ cpu_match_addr(last.a1).addr = RamCell(last.a1)
       /\ cpu_match_addr(last.a1).device = "Cartridge" =>
            last.a1 \in 16416..65535 /\ cpu_match_addr(last.a1).addr = last.a1 - 16416
       /\ last.a1 \in 0..8191 => cpu_match_addr(last.a1).device = "RAM"
       /\ last.a1 \in 16416..65535 => cpu_match_addr(last.a1).device = "Cartridge"
  /\ BusWriteOf(0..8191) =>
       /\ \A b \in RamProbes :
            nes_read(MB, b).ret = IF RamCell(b) = RamCell(last.a1) THEN last.a2
                                  ELSE Get(last.pre_ram, RamCell(b))
       /\ \A c \in DOMAIN ram \cup DOMAIN last.pre_ram :
            /\ c \in 0..2047
            /\ c # RamCell(last.a1) => Get(ram, c) = Get(last.pre_ram, c)
C26_WriteToMirror ==
  /\ BusWriteOf({2064})
  /\ Get(last.pre_ram, 16) # last.a2
  /\ nes_read(MB, 16).ret = last.a2
  /\ nes_read(MB, 6160).ret = last.a2

----------------------------------------------------------------------------
(* Properties of Motherboard::peek, checked under SpecPeek *)

Peeked == last.op = "peek"
PeekUnchanged ==
  /\ last_bus_value = last.pre_latch
  /\ ppu = last.pre_ppu
  /\ cpu = last.pre_cpu
  /\ ram = last.pre_ram

(* C27: peek(addr) changes no state of the emulator (the open-bus latch,   *)
(* the vblank flag, w, the read buffer, v, the CPU's cycle counters); it   *)
(* returns no value for the PPU register ports and for unmapped addresses, *)
(* and for RAM and cartridge addresses it returns the byte that            *)
(* read(addr) would return.                                                *)
C27_Peek ==
  Peeked =>
    /\ PeekUnchanged
    /\ last.a1 \in 8192..16415 => panic = NoPanic /\ ~last.ret.some
    /\ last.a1 \in (0..8191) \cup (16416..65535) =>
         /\ panic = NoPanic
         /\ last.ret = [some |-> TRUE, val |-> nes_read(MB, last.a1).ret]

----------------------------------------------------------------------------
(* Properties of interrupts between instructions, checked under SpecIntr *)

NmiPending(c) == c.interrupt_pending /\ ~c.maskable_interrupt
StackAt(s) == 256 + U8(s)
MidInstruction == last.op = "slot" /\ ~last.pre_idle
NmiServiced == last.op = "slot" /\ last.pre_idle /\ NmiPending(last.pre_cpu)
NmiTarget == bytes_to_addr(nes_read(MB, NMI_VECTOR).ret, nes_read(MB, NMI_VECTOR + 1).ret)

(* C28: an NMI latched while an instruction has cycles left changes        *)
(* neither PC nor S nor the stack memory until the cycles are used up, and *)
(* stays latched; the next exec() then pushes PC and P and loads PC from   *)
(* the NMI vector before it fetches an opcode, which it fetches at the     *)
(* handler.  A trigger_nmi right before a slot is the NMI raised on the    *)
(* tick of that slot.                                                      *)
C28_NmiAtBoundary ==
  /\ last.op = "trigger_nmi" =>
       /\ NmiPending(cpu)
       /\ cpu.pc = last.pre_cpu.pc /\ cpu.stack = last.pre_cpu.stack /\ ram = last.pre_ram
  /\ MidInstruction =>
       /\ cpu.pc = last.pre_cpu.pc /\ cpu.stack = last.pre_cpu.stack /\ ram = last.pre_ram
       /\ NmiPending(last.pre_cpu) => NmiPending(cpu)
  /\ NmiServiced =>
       /\ panic = NoPanic
       /\ ~cpu.interrupt_pending
       /\ last.irq.pc = NmiTarget
       /\ last.irq.stack = U8(last.pre_cpu.stack + 256 - 3)
       /\ Get(ram, StackAt(last.pre_cpu.stack)) = last.pre_cpu.pc \div 256
       /\ Get(ram, StackAt(last.pre_cpu.stack + 255)) = last.pre_cpu.pc % 256
       /\ And(cpu.instruction, 255) = nes_read(MB, last.irq.pc).ret
C28_NmiOnLastCycle ==
  /\ NmiServiced
  /\ n.cpu = 1 /\ n.nmi_cycles = 1
  /\ cpu.pc = U16(NmiTarget + 1)

----------------------------------------------------------------------------
(* Properties of the interrupt latch, checked under SpecCpu *)

IrqIgnored == last.op = "trigger_irq" /\ And(last.pre_cpu.status, IRQ_DISABLE) # 0
NmiExec == Running /\ last.op = "exec" /\ NmiPending(last.pre_cpu)

(* C29: once trigger_nmi has latched an interrupt, a trigger_irq that      *)
(* arrives before it is serviced neither changes its kind nor removes it,  *)
(* so that the next interrupt serviced loads PC from $FFFA/$FFFB whatever  *)
(* the I flag is; and a trigger_irq made while I is set changes no CPU     *)
(* state.                                                                  *)
C29_NmiStaysLatched ==
  /\ [](IrqIgnored => cpu = last.pre_cpu)
  /\ [](NmiExec => last.irq.pc = NmiTarget)
  /\ [][(NmiPending(cpu) /\ last'.op = "trigger_irq") => NmiPending(cpu')]_vars

----------------------------------------------------------------------------
(* Properties of the vblank flag, checked under SpecPpu *)

DOTS_PER_LINE == 341
(* the dots of the current frame that clock() has processed *)
DotsDone == ppu.scanline * DOTS_PER_LINE + ppu.pixel_cycle
Processed(scanline, dot) == DotsDone > scanline * DOTS_PER_LINE + dot
NoPortAccess == n.ports = 0
StatusBit(flag) == And(ppu.status, flag) # 0

(* C30: with no PPUSTATUS read, the vblank bit of PPUSTATUS is clear until *)
(* the PPU has processed scanline 241, dot 1, is set from that dot on      *)
(* through scanlines 241 to 260, and is cleared, together with sprite-0    *)
(* hit and sprite overflow, at dot 1 of the pre-render scanline 261.       *)
C30_VblankWindow ==
  NoPortAccess =>
    /\ StatusBit(VBLANK) <=> (Processed(241, 1) /\ ~Processed(261, 1))
    /\ Processed(261, 1) => ~StatusBit(SPRITE_0_HIT) /\ ~StatusBit(SPRITE_OVERFLOW)

----------------------------------------------------------------------------
(* Properties of the writes to PPUCTRL and PPUSCROLL, checked under        *)
(* SpecRegs                                                                *)

(* the fields of the 15-bit addresses t and v, by their bit positions *)
CoarseXBits == Shl(31, 0)
CoarseYBits == Shl(31, 5)
NametableBits == Shl(3, 10)
FineYBits == Shl(7, 12)
AddrBits == Shl(1, 15) - 1
Bits(val, mask) == And(val, mask)
Outside(val, mask) == And(val, AddrBits - mask)
Wrote(port) == Running /\ last.op = "control_port_write" /\ last.a1 = port

(* C31: a PPUCTRL write with bit 7 set while the vblank flag of PPUSTATUS  *)
(* is set asserts the NMI at once, so that the next tick forwards it; a    *)
(* PPUCTRL write sets bits 10-11 of t from the low two bits of the data    *)
(* and leaves the other bits of t and all of v unchanged.                  *)
C31_CtrlWrite ==
  Wrote(0) =>
    /\ (And(last.a2, VBLANK_NMI_ENABLE) # 0 /\ And(last.pre_ppu.status, VBLANK) # 0)
         => is_vblank(MB)
    /\ Bits(ppu.t, NametableBits) = Shl(And(last.a2, 3), 10)
    /\ Outside(ppu.t, NametableBits) = Outside(last.pre_ppu.t, NametableBits)
    /\ ppu.t <= AddrBits
    /\ ppu.v = last.pre_ppu.v

(* C32: with w clear a PPUSCROLL write d sets x = d & 7 and the coarse-X   *)
(* field of t to d >> 3 and sets w; the PPUSCROLL write d' that follows    *)
(* sets the fine-Y field of t (bits 12-14) to d' & 7 and the coarse-Y      *)
(* field (bits 5-9) to d' >> 3 and clears w; each write leaves the other   *)
(* fields of t (the nametable bits 10-11 among them) and v unchanged.      *)
C32_ScrollWrites ==
  /\ (Wrote(5) /\ ~last.pre_ppu.w) =>
       /\ ppu.x = And(last.a2, 7)
       /\ Bits(ppu.t, CoarseXBits) = Shr(last.a2, 3)
       /\ Outside(ppu.t, CoarseXBits) = Outside(last.pre_ppu.t, CoarseXBits)
       /\ ppu.w
       /\ ppu.v = last.pre_ppu.v
  /\ (Wrote(5) /\ last.pre_ppu.w) =>
       /\ ppu.x = last.pre_ppu.x
       /\ Bits(ppu.t, FineYBits) = Shl(And(last.a2, 7), 12)
       /\ Bits(ppu.t, CoarseYBits) = Shl(Shr(last.a2, 3), 5)
       /\ Outside(ppu.t, FineYBits + CoarseYBits)
            = Outside(last.pre_ppu.t, FineYBits + CoarseYBits)
       /\ ~ppu.w
       /\ ppu.v = last.pre_ppu.v

----------------------------------------------------------------------------
(* Properties of the scroll address v during rendering, checked under      *)
(* SpecScan                                                                *)

NametableXBits == Shl(1, 10)
NametableYBits == Shl(1, 11)
VerticalBits == FineYBits + NametableYBits + CoarseYBits
HorizontalBits == NametableXBits + CoarseXBits
FineYOf(v) == Shr(Bits(v, FineYBits), 12)
CoarseYOf(v) == Shr(Bits(v, CoarseYBits), 5)
Rendering == And(ppu.mask, BG_ENABLE + SPRITE_ENABLE) # 0
RenderedLine(scanline) == scanline < 240 \/ scanline = 261
Clocked(scanline, dot) ==
  Running /\ last.op = "clock" /\ last.pre_scanline = scanline /\ last.pre_dot = dot

(* v after the fine-Y increment, as C33 has it *)
FineYIncremented(v) ==
  IF FineYOf(v) < 7 THEN v + Shl(1, 12)
  ELSE LET y == CoarseYOf(v)
           cleared == v - Bits(v, FineYBits) - Bits(v, CoarseYBits)
       IN CASE y = 29 -> Xor(cleared, NametableYBits)
            [] y = 31 -> cleared
            [] OTHER -> cleared + Shl(y + 1, 5)

(* C33: with rendering enabled the increment of dot 256 adds 1 to fine-Y   *)
(* when fine-Y < 7; when fine-Y = 7 it resets fine-Y to 0 and increments   *)
(* coarse-Y, where 29 wraps to 0 and toggles nametable-Y, 31 wraps to 0    *)
(* without the toggle and any other value goes up by 1; no other field of  *)
(* v changes.                                                              *)
C33_FineYIncrement ==
  /\ (Running /\ Rendering /\ ppu.pixel_cycle = 256 /\ RenderedLine(ppu.scanline)) =>
       /\ inc_fine_y(MB).panic = NoPanic
       /\ inc_fine_y(MB).ppu.v = FineYIncremented(ppu.v)
  /\ \A scanline \in {0, 1, 261} :
       (Clocked(scanline, 256) /\ Rendering) =>
         Bits(ppu.v, VerticalBits) = Bits(FineYIncremented(last.pre_v), VerticalBits)

VerticalCopyDot(scanline, dot) == scanline = 261 /\ dot >= 280 /\ dot <= 304

(* C34: with rendering enabled the horizontal fields of v (nametable-X and *)
(* coarse-X) are copied from t at dot 257 of each rendered scanline; the   *)
(* vertical fields (fine-Y, nametable-Y, coarse-Y) are copied from t on    *)
(* dots 280-304 of the pre-render scanline 261 and on no other dot: apart  *)
(* from the increment of dot 256, the clock of any other dot leaves the    *)
(* vertical fields of v as they were.                                      *)
C34_ScrollCopies ==
  (Running /\ last.op = "clock" /\ Rendering) =>
    /\ (last.pre_dot = 257 /\ RenderedLine(last.pre_scanline)) =>
         Bits(ppu.v, HorizontalBits) = Bits(ppu.t, HorizontalBits)
    /\ VerticalCopyDot(last.pre_scanline, last.pre_dot) =>
         Bits(ppu.v, VerticalBits) = Bits(ppu.t, VerticalBits)
    /\ (~VerticalCopyDot(last.pre_scanline, last.pre_dot) /\ last.pre_dot # 256) =>
         Bits(ppu.v, VerticalBits) = Bits(last.pre_v, VerticalBits)

----------------------------------------------------------------------------
(* Properties of the sprite evaluation, checked under SpecSprite           *)

SpriteHeight == IF And(ppu.control, SPRITE_MODE_SELECT) > 0 THEN 16 ELSE 8

(* the sprites the scan of the given scanline finds in range *)
InRange(scanline) ==
  { i \in (ppu.oam_addr \div 4)..63 :
      /\ scanline - ppu.oam[4 * i] >= 0
      /\ scanline - ppu.oam[4 * i] < SpriteHeight }

Rank(i, scanline) == Cardinality({ j \in InRange(scanline) : j < i })

Kept(scanline, slots) ==
  \A i \in InRange(scanline) :
    Rank(i, scanline) < slots =>
      \A c \in 0..3 : ppu.secondary_oam[4 * Rank(i, scanline) + c] = ppu.oam[4 * i + c]

Evaluated(scanline) == Clocked(scanline, 258)

(* C35: the evaluation of a scanline with k sprites in range, scanned from *)
(* sprite OAMADDR / 4 upward: when k <= 8 all k are copied to secondary    *)
(* OAM in OAM order and the overflow flag is not set (on scanline 261 it   *)
(* was cleared at dot 1); when a ninth is found the flag is set and the    *)
(* first eight are kept.                                                   *)
C35_SpriteEvaluation ==
  \A scanline \in {0, 261} :
    Evaluated(scanline) =>
      LET k == Cardinality(InRange(scanline)) IN
      /\ k <= 8 => Kept(scanline, k)
      /\ (k <= 8 /\ scanline = 261) => And(ppu.status, SPRITE_OVERFLOW) = 0
      /\ k >= 9 => (Kept(scanline, 8) /\ And(ppu.status, SPRITE_OVERFLOW) # 0)

----------------------------------------------------------------------------
(* Properties of the cycle counts, checked under SpecCpu and SpecTiming    *)

(* exec() was called with no cycles left over from the instruction before *)
AtBoundary == last.pre_cpu.cycles = 0

(* the cycles exec() charges for the instruction at pc when nothing is     *)
(* pending                                                                 *)
InstrCount(pc) ==
  exec([MB EXCEPT !.cpu.pc = pc, !.cpu.cycles = 0, !.cpu.interrupt_pending = FALSE]).cpu.cycles

(* C36: an exec() that services an NMI or IRQ charges 7 cycles on top of   *)
(* the count of the handler's first instruction, which it also executes;   *)
(* BRK costs 7 cycles in all.                                              *)
C36_InterruptCycles ==
  /\ (ServicedInterrupt /\ AtBoundary) =>
       cpu.cycles = 7 + InstrCount(last.irq.pc)
  /\ (ExecutedBrk /\ AtBoundary) => cpu.cycles = 7

(* the instruction fetched at $0000 and the slot that used up its cycles *)
TimedOpcode == Get(ram, 0)
FirstDone == Running /\ n.slots > 0 /\ is_cpu_idle /\ n.instr_cpu.pc = 0
IndexOf(b) == IF b \in AbsXReads \cup {157} THEN n.instr_cpu.x ELSE n.instr_cpu.y
BaseLow(b) == IF b \in IndYReads \cup {145} THEN Get(ram, 16) ELSE Get(ram, 1)
PageCrossed(b) == BaseLow(b) + IndexOf(b) > 255
ReadBaseline(b) == IF b \in IndYReads THEN 5 ELSE 4
StoreCount(b) == IF b = 145 THEN 6 ELSE 5
Spent == cpu.tot_cycles - n.instr_cpu.tot_cycles

(* C37: a read through abs,X, abs,Y or (zp),Y takes its baseline count (4, *)
(* 4, 5) plus 1 exactly when the index added to the low byte of the base   *)
(* address carries; STA through those modes takes 5, 5 and 6 whether the   *)
(* page is crossed or not; and no cycles remain when the instruction is    *)
(* complete.                                                               *)
C37_IndexedCycles ==
  FirstDone =>
    /\ cpu.cycles = 0
    /\ TimedOpcode \in IndexedOpcodes \ IndexedStores =>
         Spent = ReadBaseline(TimedOpcode) + (IF PageCrossed(TimedOpcode) THEN 1 ELSE 0)
    /\ TimedOpcode \in IndexedStores => Spent = StoreCount(TimedOpcode)
C37_StoreAcrossPage ==
  /\ FirstDone
  /\ TimedOpcode = 145
  /\ PageCrossed(145)
  /\ Spent = 6
  /\ cpu.cycles = 0

----------------------------------------------------------------------------
(* Properties of the program counter, checked under SpecLength *)

ControlFlow ==
  {"JMP", "JSR", "RTS", "RTI", "BRK", "BPL", "BMI", "BVC", "BVS", "BCC", "BCS", "BNE", "BEQ"}

LengthOf(mode) ==
  CASE mode \in {"Impl", "Accum"} -> 1
    [] mode \in {"Imm", "ZP", "ZPX", "ZPY", "IndX", "IndY", "Rel"} -> 2
    [] mode \in {"Abs", "AbsX", "AbsY", "AbsInd"} -> 3

(* the opcode byte of the word exec() fetched, and what it decodes to *)
FetchedOpcode == ops(cpu.instruction, 0)
FetchedMode == decode_instruction(FetchedOpcode)[1]
FetchedMnemonic == decode_instruction(FetchedOpcode)[2]
Sequential ==
  /\ Running /\ Fetched
  /\ ~last.pre_cpu.interrupt_pending
  /\ FetchedMnemonic \notin ControlFlow

(* C38: after exec() of an opcode that is not a jump, branch, call, return *)
(* or interrupt, PC is the PC before plus the length of the addressing     *)
(* mode the opcode decodes to, modulo 2^16: 1 for implied and accumulator, *)
(* 3 for the absolute modes, 2 for the others; so also for the             *)
(* undocumented opcodes, which decode to NOP.                              *)
C38_PcAdvance ==
  Sequential =>
    /\ last.pre_cpu.pc < 2048 => FetchedOpcode = Get(last.pre_ram, last.pre_cpu.pc)
    /\ cpu.pc = U16(last.pre_cpu.pc + LengthOf(FetchedMode))
C38_UndocumentedThreeBytes ==
  /\ Sequential
  /\ FetchedOpcode = 251
  /\ FetchedMnemonic = "NOP"
  /\ last.pre_cpu.pc = 0
  /\ cpu.pc = 3

----------------------------------------------------------------------------
(* Properties of the pixel output, checked under SpecPpu and SpecPixel *)

(* the stores into frame_data of the clock() that has just run *)
FrameWrites == IF Running /\ last.op = "clock" THEN ppu.frame_writes ELSE <<>>
PixelOffset(scanline, dot, c) == (scanline * 256 + dot) * 3 + c

(* C39: every store of clock() into the framebuffer goes to byte           *)
(* (scanline * 256 + dot) * 3 + c, c in 0..2, inside the 256 x 240 x 3     *)
(* bytes, the index is computed without integer overflow, and nothing is   *)
(* stored on the scanlines 240-261.                                        *)
C39_FrameWrites ==
  /\ panic # "attempt to multiply with overflow"
  /\ \A c \in 1..Len(FrameWrites) :
       /\ c <= 3
       /\ FrameWrites[c].off = PixelOffset(last.pre_scanline, last.pre_dot, c - 1)
       /\ FrameWrites[c].off < FrameDataLen
  /\ (Running /\ last.op = "clock" /\ last.pre_scanline >= 240) => FrameWrites = <<>>

(* the clock() that has just run took the pixel-output arm of a visible dot *)
Composited == Running /\ last.op = "clock" /\ last.pre_scanline < 240 /\ last.pre_dot > 3

(* C40: whatever the CPU has stored in palette RAM and whatever the        *)
(* shifters hold, the pixel composed by the pixel output is in 0..3, the   *)
(* palette address read is in $3F00-$3F1F, and the value that indexes the  *)
(* master palette is in 0..63, so that every lookup color * 3 + c is       *)
(* inside the 192-byte table.  The shifters, the fine X, the mask and      *)
(* secondary OAM are still those the pixel was composed from.              *)
C40_PaletteLookup ==
  /\ panic # "index out of bounds"
  /\ Composited =>
       /\ pixel_out(MB).pixel \in 0..3
       /\ palette_addr(pixel_out(MB)) \in 16128..16159
  /\ \A c \in 1..Len(FrameWrites) :
       /\ FrameWrites[c].tbl < PalleteTableLen
       /\ (FrameWrites[c].tbl - (c - 1)) \div 3 \in 0..63

====
